---------------------------- MODULE Spec2Model ----------------------------
(***************************************************************************)
(* Verification model of the Google Drive / Paragon integration front-end. *)
(*                                                                         *)
(* Spec      : the GoogleDriveIntegration orchestrator mounted in          *)
(*             IntegrationsPage, with the hooks useParagon, useGooglePicker*)
(*             and useScriptLoader and the axios api service.              *)
(* SpecSync  : IntegrationList.handleFileSelect with the useParagonSync    *)
(*             mutation of the headless application.                       *)
(*                                                                         *)
(* One action is one browser task: an event handler or a promise           *)
(* resolution, run together with the micro-tasks it releases, the React    *)
(* re-render of the state it set and the effects of that render.           *)
(***************************************************************************)
EXTENDS Integers, Sequences, FiniteSets, TLC

\* ------------------------------------------------------------------ bounds
MaxConnects == 2      \* clicks on the Connect button (handleConnect runs)
MaxSyncCalls == 3     \* configureParagonSync requests issued by the orchestrator
MaxSelections == 2    \* handleFileSelect runs of IntegrationList
MaxAuthCalls == 2     \* direct calls of useParagon's authenticate
MaxPolls == 2         \* ticks of the status polling interval
MaxOpenCalls == 2     \* direct calls of useGooglePicker's openPicker

\* ------------------------------------------------------- value encodings
Null == "<null>"      \* null / undefined of a string-valued field
None == <<>>          \* null / undefined of an object-valued field
Some(x) == <<x>>

\* ------------------------------------------------------------ environment
PARAGON_PROJECT_KEY == "test-project-key"
GOOGLE_API_KEY == "test-api-key"

\* the values validateEnvironment requires, in the order it tests them
RequiredEnv ==
  <<"VITE_GOOGLE_API_KEY", "VITE_GOOGLE_CLIENT_ID", "VITE_PARAGON_PROJECT_KEY",
    "VITE_PARAGON_HOST">>

\* validateEnvironment: the names that are missing when `present` are set
validateEnvironment(present) ==
  SelectSeq(RequiredEnv, LAMBDA name : name \notin present)

\* `missingVars.join(', ')`
RECURSIVE join(_)
join(names) ==
  IF names = <<>> THEN ""
  ELSE IF Len(names) = 1 THEN names[1]
  ELSE names[1] \o ", " \o join(Tail(names))

\* App: the message of setEnvError
envErrorMessage(missingVars) ==
  "Missing required environment variables: " \o join(missingVars)
    \o ". Please check your .env file and ensure all variables from .env.example are configured."

\* the literal of useParagon.ts line 131 (abbreviated to its header part)
token2 == "eyJhbGciOiJSUzI1NiJ9"

\* tokens the backend may return for POST /paragon/token
ProviderTokens == {"abc"}

\* extractProjectIdFromToken: the project_id of the decoded payload, or a
\* throw (Null) when the token is not a three-part JWT carrying one
extractProjectIdFromToken(token) ==
  IF token = "jwt-with-project" THEN "project-from-jwt" ELSE Null

\* access tokens of the interactive OAuth flow; Null = response without one
AccessTokens == {"at-1"}

\* ----------------------------------------------------- api service errors
\* what axios hands to the response interceptor when a request fails
AxiosErrors ==
  { [kind |-> "response", status |-> 401, message |-> Null, error |-> "Unauthorized"],
    [kind |-> "response", status |-> 400, message |-> "Bad folder", error |-> "ignored"],
    [kind |-> "response", status |-> 500, message |-> Null, error |-> Null],
    [kind |-> "request",  status |-> 0,   message |-> Null, error |-> Null] }

\* apiClient response interceptor: the message of the Error it throws
InterceptorMessage(e) ==
  IF e.kind = "response"
    THEN IF e.message # Null THEN e.message
         ELSE IF e.error # Null THEN e.error
         ELSE "Server error: " \o ToString(e.status)
  ELSE IF e.kind = "request"
    THEN "Network error: Unable to reach the server"
  ELSE IF e.message # Null THEN e.message
  ELSE "An unexpected error occurred"

\* variant: the interceptor's message re-thrown without the prefix
getParagonAuthTokenError_NoPrefix(e) == InterceptorMessage(e)

\* getParagonAuthToken: the message of the Error it re-throws
getParagonAuthTokenError(e) == "Authentication failed: " \o InterceptorMessage(e)

\* configureParagonSync: the message of the Error it re-throws
configureParagonSyncError(e) == "Sync configuration failed: " \o InterceptorMessage(e)

\* what paragon.authenticate / picker.init may reject with: an Error with a
\* message, or a value that is not an Error
SdkErrors == { [isError |-> TRUE, message |-> "Invalid token"],
               [isError |-> FALSE, message |-> Null] }

\* `error instanceof Error ? error.message : fallback`
ErrorMessageOr(e, fallback) == IF e.isError THEN e.message ELSE fallback

\* ------------------------------------------------------------ picker data
\* documents the Google Picker may hand back (docs[0]); driveId is present
\* only for shared drives
PickerDocs ==
  { [id |-> "folder-123", name |-> "Docs",   driveId |-> Null],
    [id |-> "folder-9",   name |-> "Shared", driveId |-> "drive-5"],
    [id |-> "",           name |-> "NoId",   driveId |-> Null] }

\* the picker callback's argument: action and docs
PickerResponses ==
  { [action |-> "cancel", docs |-> None], [action |-> "picked", docs |-> None] }
  \cup { [action |-> "picked", docs |-> Some(d)] : d \in PickerDocs }

\* responses of POST /integrations/paragon/sync that carry a body
SyncBodies ==
  { [success |-> TRUE,  syncId |-> "sync-1", message |-> "ok", error |-> Null],
    [success |-> FALSE, syncId |-> Null, message |-> Null, error |-> "Quota exceeded"],
    [success |-> FALSE, syncId |-> Null, message |-> Null, error |-> Null] }

\* ---------------------------------------------- IntegrationList data
\* the application configuration read by getAppConfig (import.meta.env)
VITE_API_BASE_URL == "http://localhost:8888"
VITE_PARAGON_USER_ID == "env-user"

\* useUserContext: userId is '' while no user is loaded, workspaceId comes
\* from localStorage
ContextUserIds == {"", "user-7"}
workspaceId == "workspace-1"

\* the file lists GoogleDriveFilePicker may hand to onFileSelect
SelectedFiles ==
  { [id |-> "file-1", name |-> "Report"],
    [id |-> "file-2", name |-> "Notes"],
    [id |-> "",       name |-> "NoId"] }

SelectedFileLists ==
  { <<>> } \cup { <<f>> : f \in SelectedFiles }
  \cup { <<[id |-> "file-1", name |-> "Report"], [id |-> "file-2", name |-> "Notes"]>> }

\* tokens of POST /api/v1/paragon/token
UserTokens == {"user-token-1", "user-token-2"}

\* how a fetch of ParagonService fails: a response that is not ok (status,
\* statusText and the text of its body) or no response at all (fetch rejects
\* with its own TypeError)
FetchFailures ==
  { [kind |-> "response", status |-> 401, statusText |-> "Unauthorized",
     body |-> "token expired"],
    [kind |-> "network", status |-> 0, statusText |-> Null, body |-> Null] }

\* the message of the TypeError a fetch without a response rejects with
FetchTypeError == "Failed to fetch"

\* ParagonService.generateToken: the message of the error it throws
generateTokenError(failure) ==
  IF failure.kind = "response"
    THEN "Failed to generate token: " \o ToString(failure.status)
           \o " " \o failure.statusText
  ELSE FetchTypeError

\* ParagonService.configureSync: the message of the error it throws
configureSyncError(failure) ==
  IF failure.kind = "response"
    THEN "Failed to configure sync: " \o ToString(failure.status)
           \o " " \o failure.statusText \o " - " \o failure.body
  ELSE FetchTypeError

\* bodies of a successful POST /api/v1/webhooks/paragon/sync
ConfigureSyncResponses ==
  { [syncId |-> "sync-a", status |-> "INITIALIZING", message |-> "created"],
    [syncId |-> "sync-b", status |-> "INITIALIZING", message |-> Null] }

\* what ParagonService.getSyncStatus resolves with, as pollSyncStatus reads
\* it (status, summary.lastSyncedAt, summary.syncedRecordsCount,
\* summary.totalRecords); the method itself is declared nowhere in
\* paragon-service.ts
StatusResponses ==
  { [status |-> "ACTIVE",
     summary |-> [lastSyncedAt |-> "2025-01-15T10:30:00Z",
                  syncedRecordsCount |-> 3, totalRecords |-> 5]],
    [status |-> "IDLE",
     summary |-> [lastSyncedAt |-> Null,
                  syncedRecordsCount |-> 0, totalRecords |-> 0]] }

\* new Date(iso).toLocaleString() in the en-US locale, UTC
toLocaleString(iso) ==
  IF iso = "2025-01-15T10:30:00Z" THEN "1/15/2025, 10:30:00 AM" ELSE "Invalid Date"


\* --------------------------------------------------------------- variables
VARIABLES
  sdkState,          \* useParagon: sdkState
  authState,         \* useParagon: authState
  scripts,           \* useScriptLoader state of the two script loaders
  windowGoogle,      \* window.google is defined
  pickerState,       \* useGooglePicker: pickerState
  integrationState,  \* GoogleDriveIntegration: integrationState
  flows,             \* the handleConnect runs that have not ended, with the
                     \* authenticate and openPicker call each of them made
  connects,          \* number of clicks on Connect so far
  syncCalls,         \* the configureParagonSync requests in flight
  syncIssued,        \* number of configureParagonSync requests issued so far
  notifications,     \* IntegrationsPage: notifications
  timers,            \* ids of the pending auto-dismiss timeouts, in firing order
  lastEvent,         \* the task that led to the current state (history)
  selectedFiles,     \* IntegrationList: selectedFiles
  selections,        \* the handleFileSelect runs awaiting generateToken
  fileSelects,       \* number of handleFileSelect runs so far
  mutations,         \* useParagonSync: the configureSync mutations in flight
  syncs,             \* useParagonSync: syncs
  userTokens,        \* useParagonSync: userTokens (syncId -> token)
  hookCalls,         \* useParagon used on its own: the authenticate calls in flight
  authCalls,         \* number of direct authenticate calls so far
  tokenRequests,     \* number of getParagonAuthToken requests they sent
  interval,          \* useParagonSync: the polling interval is set (the
                     \* component that owns the hook is mounted)
  polls,             \* the pollSyncStatus runs awaiting their status requests
  pollOrder,         \* for each of these runs, the number of the tick that started it
  pollTicks,         \* number of interval ticks so far
  statusRequests,    \* number of getSyncStatus requests issued so far
  pickerCalls,       \* useGooglePicker used on its own: the openPicker calls in flight
  openCalls,         \* number of direct openPicker calls so far
  oauthRequests,     \* number of requestAccessToken calls they made
  resetSinceOpen,    \* resetPicker was called after the last direct openPicker call
  env,               \* the required environment values that are set
  envError,          \* App: envError
  app,               \* App: "rendered" (first render, effects not yet run),
                     \* "page" (IntegrationsPage mounted) or "blocked"
                     \* (the configuration error screen)
  configureCalls,    \* number of paragon.configureGlobal calls started
  elements           \* document: the script element of each id, "absent" or
                     \* what became of its load ("loading", "loaded", "failed")

listVars == <<selectedFiles, selections, fileSelects, mutations, syncs, userTokens>>
hookVars == <<hookCalls, authCalls, tokenRequests>>
pollVars == <<interval, polls, pollOrder, pollTicks, statusRequests>>
pickVars == <<pickerCalls, openCalls, oauthRequests, resetSinceOpen>>
appVars == <<env, envError, app, configureCalls, elements>>
vars == <<sdkState, authState, scripts, windowGoogle, pickerState,
          integrationState, flows, connects, syncCalls, syncIssued,
          notifications, timers, lastEvent, selectedFiles, selections,
          fileSelects, mutations, syncs, userTokens,
          hookCalls, authCalls, tokenRequests,
          interval, polls, pollOrder, pollTicks, statusRequests,
          pickerCalls, openCalls, oauthRequests, resetSinceOpen,
          env, envError, app, configureCalls, elements>>

ScriptIds == {"google-apis", "google-accounts"}

\* the src each script id is loaded from
ScriptSrc(s) ==
  IF s = "google-apis" THEN "https://apis.google.com/js/api.js"
  ELSE "https://accounts.google.com/gsi/client"

\* ---------------------------------------------------------- initial state
authIdle == [isAuthenticated |-> FALSE, isAuthenticating |-> FALSE,
             user |-> Null, error |-> Null]

pickerIdle == [isOpen |-> FALSE, isLoading |-> FALSE, selectedFolder |-> None,
               error |-> Null, accessToken |-> Null]

integrationIdle == [isConnected |-> FALSE, isLoading |-> FALSE, error |-> Null,
                    syncedFolder |-> None]

\* lastEvent: the task's kind, its input, the flow or request it was about
\* (as the task left it), the parent callback it invoked (onError /
\* onSyncComplete, as the notification added) and whether the render it
\* caused ran handleFolderSelected from the folder-selection effect
Event(type, arg, on) ==
  [type |-> type, arg |-> arg, on |-> on, cb |-> None, fired |-> FALSE]

\* the state after the first render and its mount effects: configureGlobal
\* is in flight and both script elements were appended to a fresh document
Init ==
  /\ sdkState = [isLoading |-> TRUE, isReady |-> FALSE, error |-> Null]
  /\ authState = authIdle
  /\ scripts = [s \in ScriptIds |-> [isLoading |-> TRUE, isLoaded |-> FALSE, error |-> Null]]
  /\ windowGoogle = FALSE
  /\ pickerState = pickerIdle
  /\ integrationState = integrationIdle
  /\ flows = <<>>
  /\ connects = 0
  /\ syncCalls = <<>>
  /\ syncIssued = 0
  /\ notifications = <<>>
  /\ timers = <<>>
  /\ lastEvent = Event("mount", None, None)
  /\ selectedFiles = <<>>
  /\ selections = <<>>
  /\ fileSelects = 0
  /\ mutations = <<>>
  /\ syncs = <<>>
  /\ userTokens = [id \in {} |-> Null]
  /\ hookCalls = <<>>
  /\ authCalls = 0
  /\ tokenRequests = 0
  /\ interval = TRUE
  /\ polls = <<>>
  /\ pollOrder = <<>>
  /\ pollTicks = 0
  /\ statusRequests = 0
  /\ pickerCalls = <<>>
  /\ openCalls = 0
  /\ oauthRequests = 0
  /\ resetSinceOpen = FALSE
  /\ env = { RequiredEnv[i] : i \in DOMAIN RequiredEnv }
  /\ envError = Null
  /\ app = "page"
  /\ configureCalls = 1
  /\ elements = [s \in ScriptIds |-> "loading"]


\* ------------------------------------------------ derived render values
\* useGooglePicker: isGoogleReady
isGoogleReady ==
  /\ scripts["google-apis"].isLoaded
  /\ scripts["google-accounts"].isLoaded
  /\ windowGoogle

\* useGooglePicker: isGoogleLoading
isGoogleLoading ==
  scripts["google-apis"].isLoading \/ scripts["google-accounts"].isLoading

\* GoogleDriveIntegration: the overall loading flag
isLoading ==
  \/ integrationState.isLoading
  \/ authState.isAuthenticating
  \/ pickerState.isLoading
  \/ sdkState.isLoading
  \/ isGoogleLoading

\* variant: a canConnect that does not look at the SDK
canConnect_IgnoresSdk == isGoogleReady /\ ~isLoading

\* GoogleDriveIntegration: canConnect
canConnect == sdkState.isReady /\ isGoogleReady /\ ~isLoading

\* useGooglePicker: googleError
googleError ==
  IF scripts["google-apis"].error # Null THEN scripts["google-apis"].error
  ELSE scripts["google-accounts"].error

\* useParagon: paragonError
paragonError == sdkState.error

\* GoogleDriveIntegration: the error shown in the alert,
\* `integrationState.error || paragonError || googleError`
shownError ==
  IF integrationState.error # Null THEN integrationState.error
  ELSE IF paragonError # Null THEN paragonError
  ELSE googleError

\* --------------------------------------------------------- IntegrationsPage
\* handleSyncComplete: the notification it adds for a response
handleSyncComplete(response) ==
  [type |-> "success",
   message |-> "Google Drive sync configured successfully! "
               \o (IF response.message # Null THEN response.message ELSE "")]

\* handleIntegrationError: the notification it adds for an error
handleIntegrationError(error) == [type |-> "error", message |-> error]

\* the timeout callback of addNotification: drop the notifications with the id
DismissNotification(list, id) == SelectSeq(list, LAMBDA n : n.id # id)

\* ------------------------------------------------- GoogleDriveIntegration
\* variant: the request body without the folder's driveId
SyncRequestOf_NoDrive(folder) == [folderId |-> folder.id, driveId |-> Null]

\* handleFolderSelected: the request body handed to configureParagonSync
SyncRequestOf(folder) == [folderId |-> folder.id, driveId |-> folder.driveId]

\* handleFolderSelected: the syncedFolder recorded on success
SyncedFolderOf(folder) ==
  [id |-> folder.id, name |-> folder.name, driveId |-> folder.driveId]

\* the condition of the folder-selection effect
FolderEffectCondition(selectedFolder, isAuthenticated, isConnected) ==
  selectedFolder # None /\ isAuthenticated /\ ~isConnected

\* The commit of one task.  ev is the task (Event); is1 and calls1 are
\* integrationState and syncCalls as the task's handlers left them; cb is
\* the parent callback the task invoked (onError or onSyncComplete, which
\* call addNotification), if any; dismiss tells that the task is the
\* auto-dismiss timeout of the oldest pending notification.  A change of
\* notifications re-renders IntegrationsPage, which hands fresh onError /
\* onSyncComplete closures to GoogleDriveIntegration, so handleFolderSelected
\* is a new function and the folder-selection effect runs again.  The
\* primed authState and pickerState are set by the calling action.
\* Notification ids are Date.now() values; only their equality matters, so
\* they are kept relative to the oldest pending timeout.  Two notifications
\* added in the same millisecond share an id.
Render(ev, is1, calls1, cb, dismiss) ==
  LET parentRendered == cb # None \/ dismiss
      depsChanged ==
        \/ parentRendered
        \/ pickerState'.selectedFolder # pickerState.selectedFolder
        \/ authState'.isAuthenticated # authState.isAuthenticated
        \/ is1.isConnected # integrationState.isConnected
      fire ==
        /\ depsChanged
        /\ FolderEffectCondition(pickerState'.selectedFolder,
                                 authState'.isAuthenticated, is1.isConnected)
      folder == pickerState'.selectedFolder[1].doc
      rest == Tail(timers)
      base == IF rest = <<>> THEN 0 ELSE Head(rest)
  IN
  /\ IF cb # None
       THEN \* addNotification: id = Date.now().toString()
            \E t \in (IF timers = <<>> THEN {0}
                      ELSE {timers[Len(timers)], timers[Len(timers)] + 1}) :
              /\ notifications' =
                   Append(notifications,
                          [id |-> t, type |-> cb[1].type, message |-> cb[1].message])
              /\ timers' = Append(timers, t)
       ELSE IF dismiss
         THEN /\ timers' = [k \in DOMAIN rest |-> rest[k] - base]
              /\ notifications' =
                   LET kept == DismissNotification(notifications, Head(timers))
                   IN [k \in DOMAIN kept |-> [kept[k] EXCEPT !.id = @ - base]]
         ELSE UNCHANGED <<notifications, timers>>
  /\ lastEvent' = [ev EXCEPT !.cb = cb, !.fired = fire]
  /\ IF fire /\ folder.id # ""
       THEN \* handleFolderSelected -> configureParagonSync
            /\ syncIssued < MaxSyncCalls
            /\ syncIssued' = syncIssued + 1
            /\ syncCalls' = Append(calls1,
                 [request |-> SyncRequestOf(folder), folder |-> folder])
            /\ integrationState' = is1
       ELSE /\ syncCalls' = calls1
            /\ syncIssued' = syncIssued
            /\ integrationState' =
                 IF fire  \* handleFolderSelected's guard: a folder without id
                   THEN [is1 EXCEPT !.error = "Selected folder must have an ID",
                                    !.isLoading = FALSE]
                   ELSE is1

\* ------------------------------------------------------------ useParagon
\* variant: configureGlobal attempted again after a failure
ConfigureSucceed_Retry ==
  /\ sdkState.isLoading \/ sdkState.error # Null
  /\ sdkState' = [isLoading |-> FALSE, isReady |-> TRUE, error |-> Null]
  /\ lastEvent' = Event("ConfigureSucceed", None, None)
  /\ UNCHANGED <<authState, scripts, windowGoogle, pickerState, integrationState,
                 flows, connects, syncCalls, syncIssued, notifications, timers>>
  /\ UNCHANGED listVars
  /\ UNCHANGED hookVars
  /\ UNCHANGED appVars
  /\ UNCHANGED pollVars
  /\ UNCHANGED pickVars

\* the configureParagon effect: paragon.configureGlobal resolved
ConfigureSucceed ==
  /\ sdkState.isLoading
  /\ sdkState' = [isLoading |-> FALSE, isReady |-> TRUE, error |-> Null]
  /\ lastEvent' = Event("ConfigureSucceed", None, None)
  /\ UNCHANGED <<authState, scripts, windowGoogle, pickerState, integrationState,
                 flows, connects, syncCalls, syncIssued, notifications, timers>>
  /\ UNCHANGED listVars
  /\ UNCHANGED hookVars
  /\ UNCHANGED appVars
  /\ UNCHANGED pollVars
  /\ UNCHANGED pickVars

\* the configureParagon effect: paragon.configureGlobal rejected
ConfigureFail(e) ==
  /\ sdkState.isLoading
  /\ sdkState' = [isLoading |-> FALSE, isReady |-> FALSE,
                  error |-> ErrorMessageOr(e, "Failed to configure Paragon SDK")]
  /\ lastEvent' = Event("ConfigureFail", e, None)
  /\ UNCHANGED <<authState, scripts, windowGoogle, pickerState, integrationState,
                 flows, connects, syncCalls, syncIssued, notifications, timers>>
  /\ UNCHANGED listVars
  /\ UNCHANGED hookVars
  /\ UNCHANGED appVars
  /\ UNCHANGED pollVars
  /\ UNCHANGED pickVars

\* -------------------------------------------------------- useScriptLoader
\* the 'load' listener of a script element
ScriptLoaded(s) ==
  /\ scripts[s].isLoading
  /\ scripts' = [scripts EXCEPT ![s] = [isLoading |-> FALSE, isLoaded |-> TRUE, error |-> Null]]
  \* the Google Identity Services client defines window.google
  /\ windowGoogle' = (windowGoogle \/ s = "google-accounts")
  /\ elements' = [elements EXCEPT ![s] = "loaded"]
  /\ lastEvent' = Event("ScriptLoaded", s, None)
  /\ UNCHANGED <<sdkState, authState, pickerState, integrationState,
                 flows, connects, syncCalls, syncIssued, notifications, timers>>
  /\ UNCHANGED listVars
  /\ UNCHANGED hookVars
  /\ UNCHANGED <<env, envError, app, configureCalls>>
  /\ UNCHANGED pollVars
  /\ UNCHANGED pickVars

\* the 'error' listener of a script element
ScriptFailed(s) ==
  /\ scripts[s].isLoading
  /\ scripts' = [scripts EXCEPT ![s] =
       [isLoading |-> FALSE, isLoaded |-> FALSE,
        error |-> "Failed to load script: " \o ScriptSrc(s)]]
  /\ elements' = [elements EXCEPT ![s] = "failed"]
  /\ lastEvent' = Event("ScriptFailed", s, None)
  /\ UNCHANGED <<sdkState, authState, windowGoogle, pickerState, integrationState,
                 flows, connects, syncCalls, syncIssued, notifications, timers>>
  /\ UNCHANGED listVars
  /\ UNCHANGED hookVars
  /\ UNCHANGED <<env, envError, app, configureCalls>>
  /\ UNCHANGED pollVars
  /\ UNCHANGED pickVars

\* loadScript: the state it sets for a script whose element is as given
loadScript(element) ==
  IF element # "absent"
    THEN [isLoading |-> FALSE, isLoaded |-> TRUE, error |-> Null]
    ELSE [isLoading |-> TRUE, isLoaded |-> FALSE, error |-> Null]

\* loadScript: the element after it (appended when there was none)
appendScript(element) == IF element = "absent" THEN "loading" ELSE element

\* the load of a script element left by an earlier mount finishes: its
\* listeners set the state of that mount's hook, which is gone, and
\* loadScript of this mount added none
ScriptElementLoaded(s) ==
  /\ elements[s] = "loading"
  /\ ~scripts[s].isLoading
  /\ elements' = [elements EXCEPT ![s] = "loaded"]
  /\ windowGoogle' = (windowGoogle \/ s = "google-accounts")
  /\ lastEvent' = Event("ScriptElementLoaded", s, None)
  /\ UNCHANGED <<sdkState, authState, scripts, pickerState, integrationState,
                 flows, connects, syncCalls, syncIssued, notifications, timers>>
  /\ UNCHANGED <<env, envError, app, configureCalls>>
  /\ UNCHANGED listVars
  /\ UNCHANGED hookVars
  /\ UNCHANGED pollVars
  /\ UNCHANGED pickVars

\* the load of a script element left by an earlier mount fails
ScriptElementFailed(s) ==
  /\ elements[s] = "loading"
  /\ ~scripts[s].isLoading
  /\ elements' = [elements EXCEPT ![s] = "failed"]
  /\ lastEvent' = Event("ScriptElementFailed", s, None)
  /\ UNCHANGED <<sdkState, authState, scripts, windowGoogle, pickerState,
                 integrationState, flows, connects, syncCalls, syncIssued,
                 notifications, timers>>
  /\ UNCHANGED <<env, envError, app, configureCalls>>
  /\ UNCHANGED listVars
  /\ UNCHANGED hookVars
  /\ UNCHANGED pollVars
  /\ UNCHANGED pickVars

\* -------------------------------------------------------- connect flows
\* A flow is one run of handleConnect with the calls it made:
\*   hc      where handleConnect stands: "auth" / "pick" (awaiting the
\*           authentication / picker promise) or "done" (returned)
\*   au      the authenticate call it made: "none", "token" (awaiting
\*           getParagonAuthToken), "sdk" (awaiting paragon.authenticate),
\*           "init" (after onSuccess, awaiting ExternalFilePicker.init),
\*           "done", "failed" (onError called), "tailFailed" (threw after
\*           onSuccess)
\*   op      the openPicker call it made: "none", "oauth" (awaiting the
\*           token client callback), "load" (awaiting picker.api.load),
\*           "open" (picker visible), "picked", "cancelled", "invalid",
\*           "empty" (callback outcomes), "failed" (threw)
\*   capTok  pickerState.accessToken in the closure of the openPicker that
\*           the run captured (the render of the click), until it is read
\*   sdkTok, sdkProj  the arguments of the pending paragon.authenticate call
NewFlow(capTok) ==
  [hc |-> "auth", au |-> "none", op |-> "none", capTok |-> capTok,
   sdkTok |-> Null, sdkProj |-> Null]

\* a flow ends when handleConnect has returned and authenticate has too
Ended(f) == f.hc = "done" /\ f.au \notin {"token", "sdk", "init"}

\* the flows still running
Settle(fs) == SelectSeq(fs, LAMBDA f : ~Ended(f))

\* openPicker up to its first await, in a render where isGoogleReady holds
\* (the Connect button is enabled in no other): the cached access token of
\* that render decides between the OAuth token flow and the picker load
OpenPickerStart(f) ==
  [f EXCEPT !.hc = "pick", !.op = IF f.capTok = Null THEN "oauth" ELSE "load",
            !.capTok = Null]

\* The catch block of authenticate while handleConnect still awaits the
\* authentication promise: setAuthState, config.onError -> reject ->
\* handleConnect's catch -> setIntegrationState, onError
AuthFailure(type, arg, i, msg) ==
  LET f == [flows[i] EXCEPT !.au = "failed", !.hc = "done",
                            !.sdkTok = Null, !.sdkProj = Null]
  IN
  /\ authState' = [isAuthenticated |-> FALSE, isAuthenticating |-> FALSE,
                   user |-> Null, error |-> msg]
  /\ flows' = Settle([flows EXCEPT ![i] = f])
  /\ pickerState' = pickerState
  /\ connects' = connects
  /\ Render(Event(type, arg, Some(f)),
            [integrationState EXCEPT !.isLoading = FALSE, !.error = msg],
            syncCalls, Some(handleIntegrationError(msg)), FALSE)

\* handleConnect, from the click to its first await
ClickConnect ==
  /\ connects < MaxConnects
  /\ ~integrationState.isConnected          \* the button is rendered
  /\ canConnect /\ ~isLoading                \* disabled={!canConnect || isLoading}
  /\ connects' = connects + 1
  /\ LET is1 == [integrationState EXCEPT !.isLoading = TRUE, !.error = Null]
         f0 == NewFlow(pickerState.accessToken)
         notReady == "Paragon SDK is not ready"
     IN IF ~authState.isAuthenticated
          THEN IF ~sdkState.isReady
                 THEN \* authenticate without a ready SDK
                      LET f == [f0 EXCEPT !.au = "failed", !.hc = "done"]
                      IN /\ authState' = [authState EXCEPT !.error = notReady]
                         /\ flows' = flows
                         /\ pickerState' = pickerState
                         /\ Render(Event("ClickConnect", None, Some(f)),
                                   [is1 EXCEPT !.isLoading = FALSE, !.error = notReady],
                                   syncCalls, Some(handleIntegrationError(notReady)),
                                   FALSE)
                 ELSE \* authenticate: the token request is sent
                      LET f == [f0 EXCEPT !.au = "token"]
                      IN /\ authState' = [authState EXCEPT !.isAuthenticating = TRUE,
                                                           !.error = Null]
                         /\ flows' = Append(flows, f)
                         /\ pickerState' = pickerState
                         /\ Render(Event("ClickConnect", None, Some(f)),
                                   is1, syncCalls, None, FALSE)
          ELSE \* already authenticated: straight to the picker
               LET f == OpenPickerStart(f0)
               IN /\ authState' = authState
                  /\ flows' = Append(flows, f)
                  /\ pickerState' = [pickerState EXCEPT !.isLoading = TRUE,
                                                        !.error = Null]
                  /\ Render(Event("ClickConnect", None, Some(f)),
                            is1, syncCalls, None, FALSE)
  /\ UNCHANGED <<sdkState, scripts, windowGoogle>>
  /\ UNCHANGED listVars
  /\ UNCHANGED hookVars
  /\ UNCHANGED appVars
  /\ UNCHANGED pollVars
  /\ UNCHANGED pickVars

\* getParagonAuthToken resolved with a token: the project id is chosen and
\* paragon.authenticate is called
TokenSuccess(i, token) ==
  /\ flows[i].au = "token"
  /\ LET projectId == IF PARAGON_PROJECT_KEY # Null /\ PARAGON_PROJECT_KEY # ""
                        THEN PARAGON_PROJECT_KEY
                        ELSE extractProjectIdFromToken(token)
         f == [flows[i] EXCEPT !.au = "sdk", !.sdkTok = token2, !.sdkProj = projectId]
     IN IF projectId = Null
          THEN AuthFailure("TokenSuccess", token, i,
                           "Failed to extract project ID from token")
          ELSE /\ flows' = [flows EXCEPT ![i] = f]
               /\ lastEvent' = Event("TokenSuccess", token, Some(f))
               /\ UNCHANGED <<authState, pickerState, integrationState, connects,
                              syncCalls, syncIssued, notifications, timers>>
  /\ UNCHANGED <<sdkState, scripts, windowGoogle>>
  /\ UNCHANGED listVars
  /\ UNCHANGED hookVars
  /\ UNCHANGED appVars
  /\ UNCHANGED pollVars
  /\ UNCHANGED pickVars

\* getParagonAuthToken rejected
TokenFailure(i, e) ==
  /\ flows[i].au = "token"
  /\ AuthFailure("TokenFailure", e, i, getParagonAuthTokenError(e))
  /\ UNCHANGED <<sdkState, scripts, windowGoogle>>
  /\ UNCHANGED listVars
  /\ UNCHANGED hookVars
  /\ UNCHANGED appVars
  /\ UNCHANGED pollVars
  /\ UNCHANGED pickVars

\* paragon.authenticate resolved: setAuthState, onSuccess (handleConnect
\* goes on to openPicker in the micro-task), and authenticate itself goes on
\* to the ExternalFilePicker
SdkAuthSuccess(i) ==
  /\ flows[i].au = "sdk"
  /\ LET keyMissing == GOOGLE_API_KEY = Null \/ GOOGLE_API_KEY = ""
         f == OpenPickerStart([flows[i] EXCEPT
                !.au = IF keyMissing THEN "tailFailed" ELSE "init",
                !.sdkTok = Null, !.sdkProj = Null])
     IN
     /\ authState' =
          IF keyMissing
            THEN [isAuthenticated |-> FALSE, isAuthenticating |-> FALSE, user |-> Null,
                  error |-> "Google API key is not configured. Please set VITE_GOOGLE_API_KEY in your .env file."]
            ELSE [isAuthenticated |-> TRUE, isAuthenticating |-> FALSE,
                  user |-> "authenticated-user", error |-> Null]
     /\ flows' = [flows EXCEPT ![i] = f]
     /\ pickerState' = [pickerState EXCEPT !.isLoading = TRUE, !.error = Null]
     /\ connects' = connects
     /\ Render(Event("SdkAuthSuccess", None, Some(f)),
               integrationState, syncCalls, None, FALSE)
  /\ UNCHANGED <<sdkState, scripts, windowGoogle>>
  /\ UNCHANGED listVars
  /\ UNCHANGED hookVars
  /\ UNCHANGED appVars
  /\ UNCHANGED pollVars
  /\ UNCHANGED pickVars

\* paragon.authenticate rejected
SdkAuthFailure(i, e) ==
  /\ flows[i].au = "sdk"
  /\ AuthFailure("SdkAuthFailure", e, i, ErrorMessageOr(e, "Authentication failed"))
  /\ UNCHANGED <<sdkState, scripts, windowGoogle>>
  /\ UNCHANGED listVars
  /\ UNCHANGED hookVars
  /\ UNCHANGED appVars
  /\ UNCHANGED pollVars
  /\ UNCHANGED pickVars

\* ExternalFilePicker.init resolved: picker.open(), authenticate returns
ParagonPickerOpened(i) ==
  /\ flows[i].au = "init"
  /\ LET f == [flows[i] EXCEPT !.au = "done"]
     IN /\ flows' = Settle([flows EXCEPT ![i] = f])
        /\ lastEvent' = Event("ParagonPickerOpened", None, Some(f))
  /\ UNCHANGED <<sdkState, authState, scripts, windowGoogle, pickerState,
                 integrationState, connects, syncCalls, syncIssued,
                 notifications, timers>>
  /\ UNCHANGED listVars
  /\ UNCHANGED hookVars
  /\ UNCHANGED appVars
  /\ UNCHANGED pollVars
  /\ UNCHANGED pickVars

\* ExternalFilePicker.init rejected: the catch block of authenticate runs
\* after onSuccess; its config.onError rejects an already settled promise
ParagonPickerFailed(i, e) ==
  /\ flows[i].au = "init"
  /\ LET f == [flows[i] EXCEPT !.au = "tailFailed"]
     IN /\ flows' = Settle([flows EXCEPT ![i] = f])
        /\ authState' = [isAuthenticated |-> FALSE, isAuthenticating |-> FALSE,
                         user |-> Null,
                         error |-> ErrorMessageOr(e, "Authentication failed")]
        /\ pickerState' = pickerState
        /\ connects' = connects
        /\ Render(Event("ParagonPickerFailed", e, Some(f)),
                  integrationState, syncCalls, None, FALSE)
  /\ UNCHANGED <<sdkState, scripts, windowGoogle>>
  /\ UNCHANGED listVars
  /\ UNCHANGED hookVars
  /\ UNCHANGED appVars
  /\ UNCHANGED pollVars
  /\ UNCHANGED pickVars

\* -------------------------------------------------------- useGooglePicker
\* the token client callback of initializeGoogleAPIs; token = Null is a
\* response without access_token, which rejects into openPicker's catch
OAuthResponse(i, token) ==
  /\ flows[i].op = "oauth"
  /\ LET f == [flows[i] EXCEPT !.op = IF token # Null THEN "load" ELSE "failed"]
     IN
     /\ pickerState' =
          IF token # Null
            THEN [pickerState EXCEPT !.accessToken = token]
            ELSE [pickerState EXCEPT !.isLoading = FALSE, !.isOpen = FALSE,
                                     !.error = "Failed to get access token"]
     /\ flows' = [flows EXCEPT ![i] = f]
     /\ authState' = authState
     /\ connects' = connects
     /\ Render(Event("OAuthResponse", token, Some(f)),
               integrationState, syncCalls, None, FALSE)
  /\ UNCHANGED <<sdkState, scripts, windowGoogle>>
  /\ UNCHANGED listVars
  /\ UNCHANGED hookVars
  /\ UNCHANGED appVars
  /\ UNCHANGED pollVars
  /\ UNCHANGED pickVars

\* picker.api.load called back: the picker is built and made visible
PickerApiLoaded(i) ==
  /\ flows[i].op = "load"
  /\ LET f == [flows[i] EXCEPT !.op = "open"]
     IN
     /\ pickerState' = [pickerState EXCEPT !.isOpen = TRUE, !.isLoading = FALSE]
     /\ flows' = [flows EXCEPT ![i] = f]
     /\ authState' = authState
     /\ connects' = connects
     /\ Render(Event("PickerApiLoaded", None, Some(f)),
               integrationState, syncCalls, None, FALSE)
  /\ UNCHANGED <<sdkState, scripts, windowGoogle>>
  /\ UNCHANGED listVars
  /\ UNCHANGED hookVars
  /\ UNCHANGED appVars
  /\ UNCHANGED pollVars
  /\ UNCHANGED pickVars

\* the outcome of the picker callback for a response
PickerOutcome(data) ==
  IF data.action = "picked"
    THEN IF data.docs = None THEN "empty"
         ELSE IF data.docs[1].id = "" THEN "invalid"
         ELSE "picked"
  ELSE IF data.action = "cancel" THEN "cancelled"
  ELSE "ignored"

\* a selected folder is a new object at every pick: ref tells two picks of
\* the same document apart
NewSelection(doc) ==
  Some([doc |-> doc,
        ref |-> IF pickerState.selectedFolder = None THEN 0
                ELSE 1 - pickerState.selectedFolder[1].ref])

\* the picker callback (setCallback), with the promise callbacks handleConnect
\* passed: onSelect resolves (handleConnect returns), onCancel rejects into
\* handleConnect's catch
PickerCallback(i, data) ==
  /\ flows[i].op = "open"
  /\ LET outcome == PickerOutcome(data)
         closed == [pickerState EXCEPT !.isOpen = FALSE, !.isLoading = FALSE]
         cancelMsg == "User cancelled folder selection"
         f == [flows[i] EXCEPT !.op = outcome,
                               !.hc = IF outcome \in {"picked", "cancelled"}
                                        THEN "done" ELSE @]
     IN
     /\ pickerState' =
          CASE outcome = "picked" ->
                 [closed EXCEPT !.selectedFolder = NewSelection(data.docs[1]),
                                !.error = Null]
            [] outcome = "invalid" ->
                 [closed EXCEPT !.error = "Selected folder must have an ID"]
            [] outcome = "cancelled" -> [closed EXCEPT !.error = Null]
            [] OTHER -> closed
     /\ flows' = Settle([flows EXCEPT ![i] = f])
     /\ authState' = authState
     /\ connects' = connects
     /\ IF outcome = "cancelled"
          THEN Render(Event("PickerCallback", data, Some(f)),
                      [integrationState EXCEPT !.isLoading = FALSE, !.error = cancelMsg],
                      syncCalls, Some(handleIntegrationError(cancelMsg)), FALSE)
          ELSE Render(Event("PickerCallback", data, Some(f)),
                      integrationState, syncCalls, None, FALSE)
  /\ UNCHANGED <<sdkState, scripts, windowGoogle>>
  /\ UNCHANGED listVars
  /\ UNCHANGED hookVars
  /\ UNCHANGED appVars
  /\ UNCHANGED pollVars
  /\ UNCHANGED pickVars

\* ------------------------------------------------- GoogleDriveIntegration
\* the in-flight requests without the k-th
Without(calls, k) == [j \in 1..(Len(calls) - 1) |-> IF j < k THEN calls[j] ELSE calls[j + 1]]

\* handleFolderSelected after the await, for a response that carries a body
SyncResponded(k, body) ==
  /\ k \in DOMAIN syncCalls
  /\ authState' = authState
  /\ pickerState' = pickerState
  /\ UNCHANGED <<flows, connects>>
  /\ IF body.success
       THEN Render(Event("SyncResponded", body, Some(syncCalls[k])),
                   [isConnected |-> TRUE, isLoading |-> FALSE, error |-> Null,
                    syncedFolder |-> Some(SyncedFolderOf(syncCalls[k].folder))],
                   Without(syncCalls, k),
                   Some(handleSyncComplete(body)), FALSE)
       ELSE LET error == IF body.error # Null /\ body.error # ""
                           THEN body.error ELSE "Sync configuration failed"
            IN Render(Event("SyncResponded", body, Some(syncCalls[k])),
                      [integrationState EXCEPT !.error = error, !.isLoading = FALSE],
                      Without(syncCalls, k),
                      Some(handleIntegrationError(error)), FALSE)
  /\ UNCHANGED <<sdkState, scripts, windowGoogle>>
  /\ UNCHANGED listVars
  /\ UNCHANGED hookVars
  /\ UNCHANGED appVars
  /\ UNCHANGED pollVars
  /\ UNCHANGED pickVars

\* handleFolderSelected's catch: configureParagonSync threw
SyncRejected(k, e) ==
  /\ k \in DOMAIN syncCalls
  /\ authState' = authState
  /\ pickerState' = pickerState
  /\ UNCHANGED <<flows, connects>>
  /\ LET errorMessage == configureParagonSyncError(e)
     IN Render(Event("SyncRejected", e, Some(syncCalls[k])),
               [integrationState EXCEPT !.error = errorMessage, !.isLoading = FALSE],
               Without(syncCalls, k),
               Some(handleIntegrationError(errorMessage)), FALSE)
  /\ UNCHANGED <<sdkState, scripts, windowGoogle>>
  /\ UNCHANGED listVars
  /\ UNCHANGED hookVars
  /\ UNCHANGED appVars
  /\ UNCHANGED pollVars
  /\ UNCHANGED pickVars

\* variant: a handleReset that resets neither hook
ClickChangeFolder_KeepsHooks ==
  /\ integrationState.isConnected
  /\ integrationState.syncedFolder # None
  /\ authState' = authState
  /\ pickerState' = pickerState
  /\ UNCHANGED <<flows, connects>>
  /\ Render(Event("ClickChangeFolder", None, None),
            integrationIdle, syncCalls, None, FALSE)
  /\ UNCHANGED <<sdkState, scripts, windowGoogle>>
  /\ UNCHANGED listVars
  /\ UNCHANGED hookVars
  /\ UNCHANGED appVars
  /\ UNCHANGED pollVars
  /\ UNCHANGED pickVars

\* handleReset, the Change Folder button of the connected card
ClickChangeFolder ==
  /\ integrationState.isConnected
  /\ integrationState.syncedFolder # None
  /\ authState' = authIdle        \* resetAuth
  /\ pickerState' = pickerIdle    \* resetPicker
  /\ UNCHANGED <<flows, connects>>
  /\ Render(Event("ClickChangeFolder", None, None),
            integrationIdle, syncCalls, None, FALSE)
  /\ UNCHANGED <<sdkState, scripts, windowGoogle>>
  /\ UNCHANGED listVars
  /\ UNCHANGED hookVars
  /\ UNCHANGED appVars
  /\ UNCHANGED pollVars
  /\ UNCHANGED pickVars

\* --------------------------------------------------------- IntegrationsPage
\* the auto-dismiss timeout of the oldest pending notification fires
NotificationTimeout ==
  /\ timers # <<>>
  /\ authState' = authState
  /\ pickerState' = pickerState
  /\ UNCHANGED <<flows, connects>>
  /\ Render(Event("NotificationTimeout", None, None),
            integrationState, syncCalls, None, TRUE)
  /\ UNCHANGED <<sdkState, scripts, windowGoogle>>
  /\ UNCHANGED listVars
  /\ UNCHANGED hookVars
  /\ UNCHANGED appVars
  /\ UNCHANGED pollVars
  /\ UNCHANGED pickVars

\* ---------------------------------------------------------- IntegrationList
orchestratorVars ==
  <<sdkState, authState, scripts, windowGoogle, pickerState, integrationState,
    flows, connects, syncCalls, syncIssued, notifications, timers>>

\* `files[0]?.id || "root"`
FolderIdOf(files) ==
  IF files # <<>> /\ files[1].id # "" THEN files[1].id ELSE "root"

\* handleFileSelect: the request it builds once the user token is there
ListSyncRequest(files, userId, userToken) ==
  [workspaceId |-> workspaceId,
   userId |-> IF userId # "" THEN userId ELSE VITE_PARAGON_USER_ID,
   integrationId |-> "googledrive",
   folderId |-> FolderIdOf(files),
   webhookUrl |-> VITE_API_BASE_URL \o "/api/v1/webhooks/paragon/files",
   userToken |-> userToken]

\* handleFileSelect up to the await of generateToken
FileSelect(files) ==
  /\ interval
  /\ fileSelects < MaxSelections
  /\ fileSelects' = fileSelects + 1
  /\ selectedFiles' = files
  /\ selections' = Append(selections, files)
  /\ lastEvent' = Event("FileSelect", files, None)
  /\ UNCHANGED <<mutations, syncs, userTokens>>
  /\ UNCHANGED orchestratorVars
  /\ UNCHANGED hookVars
  /\ UNCHANGED appVars
  /\ UNCHANGED pollVars
  /\ UNCHANGED pickVars

\* generateToken resolved: handleFileSelect builds the request and calls
\* configureSync (mutate), which issues the POST
GenerateTokenSucceeded(j, userId, userToken) ==
  /\ j \in DOMAIN selections
  /\ LET request == ListSyncRequest(selections[j], userId, userToken)
     IN /\ mutations' = Append(mutations, request)
        /\ lastEvent' = Event("GenerateTokenSucceeded", selections[j], Some(request))
  /\ selections' = Without(selections, j)
  /\ UNCHANGED <<selectedFiles, fileSelects, syncs, userTokens>>
  /\ UNCHANGED orchestratorVars
  /\ UNCHANGED hookVars
  /\ UNCHANGED appVars
  /\ UNCHANGED pollVars
  /\ UNCHANGED pickVars

\* generateToken threw: handleFileSelect's catch logs the error
GenerateTokenFailed(j, failure) ==
  /\ j \in DOMAIN selections
  /\ lastEvent' = Event("GenerateTokenFailed", selections[j],
                        Some([failure |-> failure, error |-> generateTokenError(failure)]))
  /\ selections' = Without(selections, j)
  /\ UNCHANGED <<selectedFiles, fileSelects, mutations, syncs, userTokens>>
  /\ UNCHANGED orchestratorVars
  /\ UNCHANGED hookVars
  /\ UNCHANGED appVars
  /\ UNCHANGED pollVars
  /\ UNCHANGED pickVars

\* variant: an onSuccess that tracks the new sync as ACTIVE
ConfigureSyncSucceeded_Active(k, response) ==
  /\ k \in DOMAIN mutations
  /\ LET request == mutations[k]
         newSync == [syncId |-> response.syncId, status |-> "ACTIVE",
                     integration |-> request.integrationId,
                     folderId |-> request.folderId, message |-> response.message]
     IN /\ syncs' = IF interval THEN Append(syncs, newSync) ELSE syncs
        /\ userTokens' = IF interval
                            THEN [id \in DOMAIN userTokens \cup {response.syncId} |->
                                    IF id = response.syncId THEN request.userToken
                                    ELSE userTokens[id]]
                            ELSE userTokens
        /\ lastEvent' = Event("ConfigureSyncSucceeded", response, Some(request))
  /\ mutations' = Without(mutations, k)
  /\ UNCHANGED <<selectedFiles, selections, fileSelects>>
  /\ UNCHANGED orchestratorVars
  /\ UNCHANGED hookVars
  /\ UNCHANGED appVars
  /\ UNCHANGED pollVars
  /\ UNCHANGED pickVars

\* useParagonSync: onSuccess of the configureSync mutation
ConfigureSyncSucceeded(k, response) ==
  /\ k \in DOMAIN mutations
  /\ LET request == mutations[k]
         newSync == [syncId |-> response.syncId, status |-> "INITIALIZING",
                     integration |-> request.integrationId,
                     folderId |-> request.folderId, message |-> response.message]
     IN /\ syncs' = IF interval THEN Append(syncs, newSync) ELSE syncs
        /\ userTokens' = IF interval
                            THEN [id \in DOMAIN userTokens \cup {response.syncId} |->
                                    IF id = response.syncId THEN request.userToken
                                    ELSE userTokens[id]]
                            ELSE userTokens
        /\ lastEvent' = Event("ConfigureSyncSucceeded", response, Some(request))
  /\ mutations' = Without(mutations, k)
  /\ UNCHANGED <<selectedFiles, selections, fileSelects>>
  /\ UNCHANGED orchestratorVars
  /\ UNCHANGED hookVars
  /\ UNCHANGED appVars
  /\ UNCHANGED pollVars
  /\ UNCHANGED pickVars

\* useParagonSync: configureSync threw, onError of the mutation logs the
\* error (the mutation's error, shown as configureError)
ConfigureSyncFailed(k, failure) ==
  /\ k \in DOMAIN mutations
  /\ lastEvent' = Event("ConfigureSyncFailed",
                        [failure |-> failure, error |-> configureSyncError(failure)],
                        Some(mutations[k]))
  /\ mutations' = Without(mutations, k)
  /\ UNCHANGED <<selectedFiles, selections, fileSelects, syncs, userTokens>>
  /\ UNCHANGED orchestratorVars
  /\ UNCHANGED hookVars
  /\ UNCHANGED appVars
  /\ UNCHANGED pollVars
  /\ UNCHANGED pickVars


\* ------------------------------------------- useParagonSync: status polling
\* The polling effect runs once at mount: setInterval(pollSyncStatus, 30000).
\* A tick runs pollSyncStatus up to its await of Promise.all; the run is kept
\* in polls as the list of what the map over currentSyncs produced, one
\* element per sync, until its last status request has settled.  A state
\* setter called after the unmount changes nothing.
PollIntervalMs == 30000

\* variant: an update that drops the entry it is about
updateSyncStatus_Drops(prev, syncId, status, message) ==
  SelectSeq(prev, LAMBDA sync : sync.syncId # syncId)

\* variant: an update written to every tracked entry
updateSyncStatus_All(prev, syncId, status, message) ==
  [i \in DOMAIN prev |-> [prev[i] EXCEPT !.status = status, !.message = message]]

\* `{ ...sync, status, message }` for the matching syncId
updateSyncStatus(prev, syncId, status, message) ==
  [i \in DOMAIN prev |->
     IF prev[i].syncId = syncId
       THEN [prev[i] EXCEPT !.status = status, !.message = message]
       ELSE prev[i]]

\* the map callback of pollSyncStatus up to its await: null when there is
\* no user token for the sync, a pending getSyncStatus request otherwise
StatusRequestOf(sync, currentTokens) ==
  LET userToken == IF sync.syncId \in DOMAIN currentTokens
                     THEN currentTokens[sync.syncId] ELSE ""
  IN IF userToken = ""
       THEN [syncId |-> sync.syncId, userToken |-> userToken,
             outcome |-> "skipped", response |-> Null]
       ELSE [syncId |-> sync.syncId, userToken |-> userToken,
             outcome |-> "pending", response |-> Null]

\* `currentSyncs.map(async (sync) => ...)`
StatusPromises(currentSyncs, currentTokens) ==
  [i \in DOMAIN currentSyncs |-> StatusRequestOf(currentSyncs[i], currentTokens)]

\* the message of an update built from a status response
StatusMessage(statusResponse) ==
  "Last synced: "
    \o (IF statusResponse.summary.lastSyncedAt # Null
          THEN toLocaleString(statusResponse.summary.lastSyncedAt) ELSE "Never")
    \o " | Records: " \o ToString(statusResponse.summary.syncedRecordsCount)
    \o "/" \o ToString(statusResponse.summary.totalRecords)

\* variant: an update that keeps the status of the sync on a failed request
StatusUpdateOf_FailureSilent(request) ==
  IF request.outcome = "resolved"
    THEN Some([syncId |-> request.syncId, status |-> request.response.status,
               message |-> StatusMessage(request.response)])
  ELSE None

\* what the map callback returns once its request has settled
StatusUpdateOf(request) ==
  IF request.outcome = "resolved"
    THEN Some([syncId |-> request.syncId, status |-> request.response.status,
               message |-> StatusMessage(request.response)])
  ELSE IF request.outcome = "rejected"
    THEN Some([syncId |-> request.syncId, status |-> "ERRORED",
               message |-> "Failed to fetch status"])
  ELSE None

\* `statusUpdates.forEach(update => { if (update) updateSyncStatus(...) })`
\* applied to prev from the n-th update on
RECURSIVE ApplyUpdates(_, _, _)
ApplyUpdates(prev, run, n) ==
  IF n > Len(run) THEN prev
  ELSE LET update == StatusUpdateOf(run[n])
       IN ApplyUpdates(IF update = None THEN prev
                       ELSE updateSyncStatus(prev, update[1].syncId,
                                             update[1].status, update[1].message),
                       run, n + 1)

Pending(run) == { i \in DOMAIN run : run[i].outcome = "pending" }

\* what a poller task saw when it started
PollerBefore ==
  [syncs |-> syncs, userTokens |-> userTokens, polls |-> polls,
   statusRequests |-> statusRequests, interval |-> interval,
   pollOrder |-> pollOrder]

\* variant: a tick that asks the backend even when nothing is tracked
PollTick_RequestsWhenEmpty ==
  /\ interval
  /\ pollTicks < MaxPolls
  /\ pollTicks' = pollTicks + 1
  /\ LET currentSyncs == syncs
         currentTokens == userTokens
         run == StatusPromises(currentSyncs, currentTokens)
     IN IF Len(currentSyncs) = 0
          THEN /\ lastEvent' = Event("PollTick", PollerBefore, None)
               /\ statusRequests' = statusRequests + 1
               /\ UNCHANGED <<polls, pollOrder, syncs>>
          ELSE /\ statusRequests' = statusRequests + Cardinality(Pending(run))
               /\ lastEvent' = Event("PollTick", PollerBefore, Some(run))
               /\ IF Pending(run) = {}
                    THEN /\ syncs' = ApplyUpdates(syncs, run, 1)
                         /\ polls' = polls
                         /\ pollOrder' = pollOrder
                    ELSE /\ polls' = Append(polls, run)
                         /\ pollOrder' = Append(pollOrder, pollTicks + 1)
                         /\ syncs' = syncs
  /\ UNCHANGED <<interval, selectedFiles, selections, fileSelects, mutations, userTokens>>
  /\ UNCHANGED orchestratorVars
  /\ UNCHANGED hookVars
  /\ UNCHANGED appVars
  /\ UNCHANGED pickVars

\* variant: a tick that reads the syncs its closure captured at mount
PollTick_CapturedSyncs ==
  /\ interval
  /\ pollTicks < MaxPolls
  /\ pollTicks' = pollTicks + 1
  /\ LET currentSyncs == <<>>
         currentTokens == userTokens
         run == StatusPromises(currentSyncs, currentTokens)
     IN IF Len(currentSyncs) = 0
          THEN /\ lastEvent' = Event("PollTick", PollerBefore, None)
               /\ UNCHANGED <<polls, pollOrder, statusRequests, syncs>>
          ELSE /\ statusRequests' = statusRequests + Cardinality(Pending(run))
               /\ lastEvent' = Event("PollTick", PollerBefore, Some(run))
               /\ IF Pending(run) = {}
                    THEN /\ syncs' = ApplyUpdates(syncs, run, 1)
                         /\ polls' = polls
                         /\ pollOrder' = pollOrder
                    ELSE /\ polls' = Append(polls, run)
                         /\ pollOrder' = Append(pollOrder, pollTicks + 1)
                         /\ syncs' = syncs
  /\ UNCHANGED <<interval, selectedFiles, selections, fileSelects, mutations, userTokens>>
  /\ UNCHANGED orchestratorVars
  /\ UNCHANGED hookVars
  /\ UNCHANGED appVars
  /\ UNCHANGED pickVars

\* the interval fires: pollSyncStatus up to its first await
PollTick ==
  /\ interval
  /\ pollTicks < MaxPolls
  /\ pollTicks' = pollTicks + 1
  /\ LET currentSyncs == syncs
         currentTokens == userTokens
         run == StatusPromises(currentSyncs, currentTokens)
     IN IF Len(currentSyncs) = 0
          THEN /\ lastEvent' = Event("PollTick", PollerBefore, None)
               /\ UNCHANGED <<polls, pollOrder, statusRequests, syncs>>
          ELSE /\ statusRequests' = statusRequests + Cardinality(Pending(run))
               /\ lastEvent' = Event("PollTick", PollerBefore, Some(run))
               /\ IF Pending(run) = {}
                    THEN /\ syncs' = ApplyUpdates(syncs, run, 1)
                         /\ polls' = polls
                         /\ pollOrder' = pollOrder
                    ELSE /\ polls' = Append(polls, run)
                         /\ pollOrder' = Append(pollOrder, pollTicks + 1)
                         /\ syncs' = syncs
  /\ UNCHANGED <<interval, selectedFiles, selections, fileSelects, mutations, userTokens>>
  /\ UNCHANGED orchestratorVars
  /\ UNCHANGED hookVars
  /\ UNCHANGED appVars
  /\ UNCHANGED pickVars

\* a status request of the c-th run settled; when it was the last one
\* pending, Promise.all resolves and the updates are applied in order
StatusSettled(type, c, i, outcome, response) ==
  /\ c \in DOMAIN polls
  /\ i \in Pending(polls[c])
  /\ LET run == [polls[c] EXCEPT ![i].outcome = outcome, ![i].response = response]
         done == Pending(run) = {}
     IN /\ lastEvent' = Event(type, [before |-> PollerBefore, cycle |-> c,
                                     index |-> i, done |-> done],
                              Some(run))
        /\ polls' = IF done THEN Without(polls, c) ELSE [polls EXCEPT ![c] = run]
        /\ pollOrder' = IF done THEN Without(pollOrder, c) ELSE pollOrder
        /\ syncs' = IF done /\ interval THEN ApplyUpdates(syncs, run, 1) ELSE syncs
  /\ UNCHANGED <<interval, pollTicks, statusRequests>>
  /\ UNCHANGED <<selectedFiles, selections, fileSelects, mutations, userTokens>>
  /\ UNCHANGED orchestratorVars
  /\ UNCHANGED hookVars
  /\ UNCHANGED appVars
  /\ UNCHANGED pickVars

\* ParagonService.getSyncStatus resolved
StatusResolved(c, i, statusResponse) ==
  StatusSettled("StatusResolved", c, i, "resolved", statusResponse)

\* ParagonService.getSyncStatus threw or rejected: the inner catch
StatusRejected(c, i) ==
  StatusSettled("StatusRejected", c, i, "rejected", Null)

\* variant: a cleanup that leaves the interval set
Unmount_KeepsInterval ==
  /\ interval
  /\ interval' = interval
  /\ lastEvent' = Event("Unmount", PollerBefore, None)
  /\ UNCHANGED <<polls, pollOrder, pollTicks, statusRequests>>
  /\ UNCHANGED listVars
  /\ UNCHANGED orchestratorVars
  /\ UNCHANGED hookVars
  /\ UNCHANGED appVars
  /\ UNCHANGED pickVars

\* the component is unmounted: the effect's cleanup, clearInterval(interval)
Unmount ==
  /\ interval
  /\ interval' = FALSE
  /\ lastEvent' = Event("Unmount", PollerBefore, None)
  /\ UNCHANGED <<polls, pollOrder, pollTicks, statusRequests>>
  /\ UNCHANGED listVars
  /\ UNCHANGED orchestratorVars
  /\ UNCHANGED hookVars
  /\ UNCHANGED appVars
  /\ UNCHANGED pickVars


\* ---------------------------------------- useGooglePicker used on its own
\* The hook driven directly by its caller: openPicker and resetPicker of the
\* current render may be called at any time, with an onSelect and an
\* onCancel callback.  A call in flight is a record of where it stands (op:
\* "oauth", "load", "open" as in a flow).
notPickerVars ==
  <<sdkState, authState, integrationState, flows, connects, syncCalls,
    syncIssued, notifications, timers>>

\* what a call hands to onSelect / onCancel
onSelect(folder) == [callback |-> "onSelect", folder |-> folder]
onCancel == [callback |-> "onCancel"]

\* variant: the readiness check skipped, the call marked as loading
openPickerNotReady_Started(prev) == [prev EXCEPT !.isLoading = TRUE, !.error = Null]

\* openPicker: the state it sets when the Google APIs are not ready
openPickerNotReady(prev) == [prev EXCEPT !.error = "Google APIs are not ready"]

\* openPicker: the state it sets before its first await
openPickerStarted(prev) == [prev EXCEPT !.isLoading = TRUE, !.error = Null]

\* what the caller of openPicker or resetPicker saw
PickerBefore ==
  [isGoogleReady |-> isGoogleReady, pickerState |-> pickerState,
   inFlight |-> Len(pickerCalls), oauthRequests |-> oauthRequests,
   resetSinceOpen |-> resetSinceOpen]

\* openPicker called, up to its first await
OpenPicker ==
  /\ openCalls < MaxOpenCalls
  /\ openCalls' = openCalls + 1
  /\ resetSinceOpen' = FALSE
  /\ IF ~isGoogleReady
       THEN /\ pickerState' = openPickerNotReady(pickerState)
            /\ lastEvent' = Event("OpenPicker", PickerBefore, None)
            /\ UNCHANGED <<pickerCalls, oauthRequests>>
       ELSE LET call == [op |-> IF pickerState.accessToken = Null
                                  THEN "oauth" ELSE "load"]
            IN /\ pickerState' = openPickerStarted(pickerState)
               /\ pickerCalls' = Append(pickerCalls, call)
               /\ oauthRequests' = IF call.op = "oauth" THEN oauthRequests + 1
                                   ELSE oauthRequests
               /\ lastEvent' = Event("OpenPicker", PickerBefore, Some(call))
  /\ UNCHANGED <<scripts, windowGoogle>>
  /\ UNCHANGED notPickerVars
  /\ UNCHANGED listVars
  /\ UNCHANGED hookVars
  /\ UNCHANGED appVars
  /\ UNCHANGED pollVars

\* the token client callback of the i-th call: with an access token the
\* picker API is loaded, without one initializeGoogleAPIs rejects into the
\* catch block of openPicker
PickerOAuthResponse(i, token) ==
  /\ i \in DOMAIN pickerCalls
  /\ pickerCalls[i].op = "oauth"
  /\ IF token # Null
       THEN /\ pickerState' = [pickerState EXCEPT !.accessToken = token]
            /\ pickerCalls' = [pickerCalls EXCEPT ![i].op = "load"]
            /\ lastEvent' = Event("PickerOAuthResponse", token, Some([op |-> "load"]))
       ELSE /\ pickerState' = [pickerState EXCEPT !.isLoading = FALSE, !.isOpen = FALSE,
                                                  !.error = "Failed to get access token"]
            /\ pickerCalls' = Without(pickerCalls, i)
            /\ lastEvent' = Event("PickerOAuthResponse", token, Some([op |-> "failed"]))
  /\ UNCHANGED <<scripts, windowGoogle, openCalls, oauthRequests, resetSinceOpen>>
  /\ UNCHANGED notPickerVars
  /\ UNCHANGED listVars
  /\ UNCHANGED hookVars
  /\ UNCHANGED appVars
  /\ UNCHANGED pollVars

\* picker.api.load called back for the i-th call: the picker is built and
\* made visible
PickerLoaded(i) ==
  /\ i \in DOMAIN pickerCalls
  /\ pickerCalls[i].op = "load"
  /\ pickerState' = [pickerState EXCEPT !.isOpen = TRUE, !.isLoading = FALSE]
  /\ pickerCalls' = [pickerCalls EXCEPT ![i].op = "open"]
  /\ lastEvent' = Event("PickerLoaded", None, Some([op |-> "open"]))
  /\ UNCHANGED <<scripts, windowGoogle, openCalls, oauthRequests, resetSinceOpen>>
  /\ UNCHANGED notPickerVars
  /\ UNCHANGED listVars
  /\ UNCHANGED hookVars
  /\ UNCHANGED appVars
  /\ UNCHANGED pollVars

\* the picker callback (setCallback) of the i-th call
PickerResponded(i, data) ==
  /\ i \in DOMAIN pickerCalls
  /\ pickerCalls[i].op = "open"
  /\ LET outcome == PickerOutcome(data)
         closed == [pickerState EXCEPT !.isOpen = FALSE, !.isLoading = FALSE]
     IN /\ pickerState' =
             CASE outcome = "picked" ->
                    [closed EXCEPT !.selectedFolder = NewSelection(data.docs[1]),
                                   !.error = Null]
               [] outcome = "invalid" ->
                    [closed EXCEPT !.error = "Selected folder must have an ID"]
               [] outcome = "cancelled" -> [closed EXCEPT !.error = Null]
               [] OTHER -> closed
        /\ lastEvent' = [Event("PickerResponded", data, Some([op |-> outcome])) EXCEPT
                           !.cb = CASE outcome = "picked" -> Some(onSelect(data.docs[1]))
                                    [] outcome = "cancelled" -> Some(onCancel)
                                    [] OTHER -> None]
  /\ pickerCalls' = Without(pickerCalls, i)
  /\ UNCHANGED <<scripts, windowGoogle, openCalls, oauthRequests, resetSinceOpen>>
  /\ UNCHANGED notPickerVars
  /\ UNCHANGED listVars
  /\ UNCHANGED hookVars
  /\ UNCHANGED appVars
  /\ UNCHANGED pollVars

\* resetPicker called
ResetPicker ==
  /\ pickerState' = pickerIdle
  /\ resetSinceOpen' = TRUE
  /\ lastEvent' = Event("ResetPicker", PickerBefore, None)
  /\ UNCHANGED <<scripts, windowGoogle>>
  /\ UNCHANGED <<pickerCalls, openCalls, oauthRequests>>
  /\ UNCHANGED notPickerVars
  /\ UNCHANGED listVars
  /\ UNCHANGED hookVars
  /\ UNCHANGED appVars
  /\ UNCHANGED pollVars


\* ---------------------------------------------------------------- App
\* The state after the first render of App and before its effects ran, with
\* any subset of the required environment values set: no effect has called
\* configureGlobal or appended a script element yet.
InitApp ==
  /\ env \in SUBSET { RequiredEnv[i] : i \in DOMAIN RequiredEnv }
  /\ envError = Null
  /\ app = "rendered"
  /\ configureCalls = 0
  /\ elements = [s \in ScriptIds |-> "absent"]
  /\ sdkState = [isLoading |-> TRUE, isReady |-> FALSE, error |-> Null]
  /\ authState = authIdle
  /\ scripts = [s \in ScriptIds |-> [isLoading |-> FALSE, isLoaded |-> FALSE, error |-> Null]]
  /\ windowGoogle = FALSE
  /\ pickerState = pickerIdle
  /\ integrationState = integrationIdle
  /\ flows = <<>>
  /\ connects = 0
  /\ syncCalls = <<>>
  /\ syncIssued = 0
  /\ notifications = <<>>
  /\ timers = <<>>
  /\ lastEvent = Event("render", None, None)
  /\ selectedFiles = <<>>
  /\ selections = <<>>
  /\ fileSelects = 0
  /\ mutations = <<>>
  /\ syncs = <<>>
  /\ userTokens = [id \in {} |-> Null]
  /\ hookCalls = <<>>
  /\ authCalls = 0
  /\ tokenRequests = 0
  /\ interval = TRUE
  /\ polls = <<>>
  /\ pollOrder = <<>>
  /\ pollTicks = 0
  /\ statusRequests = 0
  /\ pickerCalls = <<>>
  /\ openCalls = 0
  /\ oauthRequests = 0
  /\ resetSinceOpen = FALSE

\* The state after the first render of App in a document that an earlier
\* mount of the page may have left script elements in: each element is
\* absent, still loading, loaded or failed, and window.google is defined
\* when the Google Identity Services client has run.
InitRemount ==
  /\ env = { RequiredEnv[i] : i \in DOMAIN RequiredEnv }
  /\ envError = Null
  /\ app = "rendered"
  /\ configureCalls = 0
  /\ elements \in [ScriptIds -> {"absent", "loading", "loaded", "failed"}]
  /\ sdkState = [isLoading |-> TRUE, isReady |-> FALSE, error |-> Null]
  /\ authState = authIdle
  /\ scripts = [s \in ScriptIds |-> [isLoading |-> FALSE, isLoaded |-> FALSE, error |-> Null]]
  /\ windowGoogle = (elements["google-accounts"] = "loaded")
  /\ pickerState = pickerIdle
  /\ integrationState = integrationIdle
  /\ flows = <<>>
  /\ connects = 0
  /\ syncCalls = <<>>
  /\ syncIssued = 0
  /\ notifications = <<>>
  /\ timers = <<>>
  /\ lastEvent = Event("render", None, None)
  /\ selectedFiles = <<>>
  /\ selections = <<>>
  /\ fileSelects = 0
  /\ mutations = <<>>
  /\ syncs = <<>>
  /\ userTokens = [id \in {} |-> Null]
  /\ hookCalls = <<>>
  /\ authCalls = 0
  /\ tokenRequests = 0
  /\ interval = TRUE
  /\ polls = <<>>
  /\ pollOrder = <<>>
  /\ pollTicks = 0
  /\ statusRequests = 0
  /\ pickerCalls = <<>>
  /\ openCalls = 0
  /\ oauthRequests = 0
  /\ resetSinceOpen = FALSE

\* The mount effects, children first: the configureParagon effect of
\* useParagon calls paragon.configureGlobal, the two script loaders append
\* their script elements, then the effect of App runs validateEnvironment;
\* with a value missing it sets envError and the re-render replaces
\* IntegrationsPage by the configuration error screen.  What the unmounted
\* hooks' pending promises do later changes no state.
AppMount ==
  /\ app = "rendered"
  /\ configureCalls' = configureCalls + 1
  /\ scripts' = [s \in ScriptIds |-> loadScript(elements[s])]
  /\ elements' = [s \in ScriptIds |-> appendScript(elements[s])]
  /\ LET missingVars == validateEnvironment(env)
     IN IF Len(missingVars) > 0
          THEN /\ envError' = envErrorMessage(missingVars)
               /\ app' = "blocked"
          ELSE /\ envError' = envError
               /\ app' = "page"
  /\ lastEvent' = Event("mount", None, None)
  /\ UNCHANGED env
  /\ UNCHANGED <<sdkState, authState, windowGoogle, pickerState, integrationState,
                 flows, connects, syncCalls, syncIssued, notifications, timers>>
  /\ UNCHANGED listVars
  /\ UNCHANGED hookVars
  /\ UNCHANGED pollVars
  /\ UNCHANGED pickVars


\* --------------------------------------------- useParagon used on its own
\* The hook driven directly by its caller (as renderHook does): authenticate
\* and resetAuth of the current render may be called at any time, with an
\* onSuccess and an onError callback.  A call in flight is a record of where
\* it stands (au: "token", "sdk", "init" as in a flow) and of the arguments
\* of its pending paragon.authenticate call.
notListVars ==
  <<scripts, windowGoogle, pickerState, integrationState, flows, connects,
    syncCalls, syncIssued, notifications, timers>>

\* what a call hands to config.onError / config.onSuccess
onError(message) == [callback |-> "onError", message |-> message]
onSuccess(user) == [callback |-> "onSuccess", success |-> TRUE, user |-> user]

\* variant: the readiness check skipped, the attempt marked as started
authenticateNotReady_Started(prev) == [prev EXCEPT !.isAuthenticating = TRUE, !.error = Null]

\* authenticate: the state it sets when the SDK is not ready
authenticateNotReady(prev) == [prev EXCEPT !.error = "Paragon SDK is not ready"]

\* authenticate: the state it sets before the token request
authenticateStarted(prev) == [prev EXCEPT !.isAuthenticating = TRUE, !.error = Null]

\* authenticate: the state it sets once paragon.authenticate resolved
authenticated ==
  [isAuthenticated |-> TRUE, isAuthenticating |-> FALSE,
   user |-> "authenticated-user", error |-> Null]

\* variant: a catch block that only records the error on the previous state
authenticateFailed_KeepsSession(errorMessage) ==
  [authState EXCEPT !.isAuthenticating = FALSE, !.error = errorMessage]

\* authenticate: the state its catch block sets
authenticateFailed(errorMessage) ==
  [isAuthenticated |-> FALSE, isAuthenticating |-> FALSE,
   user |-> Null, error |-> errorMessage]

\* variant: a reset that keeps the error
resetAuth_KeepsError ==
  [isAuthenticated |-> FALSE, isAuthenticating |-> FALSE, user |-> Null,
   error |-> authState.error]

\* resetAuth: the state it sets
resetAuth ==
  [isAuthenticated |-> FALSE, isAuthenticating |-> FALSE, user |-> Null, error |-> Null]

\* what the caller saw before a call (recorded in the event)
Before ==
  [sdkState |-> sdkState, authState |-> authState, inFlight |-> Len(hookCalls),
   tokenRequests |-> tokenRequests, after |-> lastEvent.type]

\* authenticate, from the call to its first await
Authenticate ==
  /\ authCalls < MaxAuthCalls
  /\ authCalls' = authCalls + 1
  /\ IF ~sdkState.isReady
       THEN /\ authState' = authenticateNotReady(authState)
            /\ lastEvent' = [Event("Authenticate", Before, None) EXCEPT
                               !.cb = Some(onError("Paragon SDK is not ready"))]
            /\ UNCHANGED <<hookCalls, tokenRequests>>
       ELSE LET call == [au |-> "token", sdkTok |-> Null, sdkProj |-> Null]
            IN /\ authState' = authenticateStarted(authState)
               /\ hookCalls' = Append(hookCalls, call)
               /\ tokenRequests' = tokenRequests + 1
               /\ lastEvent' = Event("Authenticate", Before, Some(call))
  /\ UNCHANGED sdkState
  /\ UNCHANGED notListVars
  /\ UNCHANGED appVars
  /\ UNCHANGED pollVars
  /\ UNCHANGED pickVars
  /\ UNCHANGED listVars

\* the catch block of authenticate for the i-th call in flight
AuthCatch(type, arg, i, errorMessage) ==
  /\ authState' = authenticateFailed(errorMessage)
  /\ lastEvent' = [Event(type, arg, Some(hookCalls[i])) EXCEPT
                     !.cb = Some(onError(errorMessage))]
  /\ hookCalls' = Without(hookCalls, i)
  /\ UNCHANGED <<sdkState, authCalls, tokenRequests>>
  /\ UNCHANGED notListVars
  /\ UNCHANGED appVars
  /\ UNCHANGED pollVars
  /\ UNCHANGED pickVars
  /\ UNCHANGED listVars

\* getParagonAuthToken resolved for the i-th call
AuthTokenResolved(i, token) ==
  /\ i \in DOMAIN hookCalls
  /\ hookCalls[i].au = "token"
  /\ LET projectId == IF PARAGON_PROJECT_KEY # Null /\ PARAGON_PROJECT_KEY # ""
                        THEN PARAGON_PROJECT_KEY
                        ELSE extractProjectIdFromToken(token)
         call == [au |-> "sdk", sdkTok |-> token2, sdkProj |-> projectId]
     IN IF projectId = Null
          THEN AuthCatch("AuthTokenResolved", token, i,
                         "Failed to extract project ID from token")
          ELSE /\ hookCalls' = [hookCalls EXCEPT ![i] = call]
               /\ lastEvent' = Event("AuthTokenResolved", token, Some(call))
               /\ UNCHANGED <<sdkState, authState, authCalls, tokenRequests>>
               /\ UNCHANGED notListVars
               /\ UNCHANGED appVars
               /\ UNCHANGED pollVars
               /\ UNCHANGED pickVars
               /\ UNCHANGED listVars

\* getParagonAuthToken rejected for the i-th call
AuthTokenRejected(i, e) ==
  /\ i \in DOMAIN hookCalls
  /\ hookCalls[i].au = "token"
  /\ AuthCatch("AuthTokenRejected", e, i, getParagonAuthTokenError(e))

\* paragon.authenticate resolved for the i-th call: setAuthState, onSuccess,
\* then on to the ExternalFilePicker
AuthSdkResolved(i) ==
  /\ i \in DOMAIN hookCalls
  /\ hookCalls[i].au = "sdk"
  /\ LET keyMissing == GOOGLE_API_KEY = Null \/ GOOGLE_API_KEY = ""
         call == [hookCalls[i] EXCEPT !.au = "init", !.sdkTok = Null, !.sdkProj = Null]
     IN /\ authState' =
             IF keyMissing
               THEN authenticateFailed("Google API key is not configured. Please set VITE_GOOGLE_API_KEY in your .env file.")
               ELSE authenticated
        /\ hookCalls' = IF keyMissing THEN Without(hookCalls, i)
                        ELSE [hookCalls EXCEPT ![i] = call]
        /\ lastEvent' = [Event("AuthSdkResolved", None, Some(call)) EXCEPT
                           !.cb = IF keyMissing
                                    THEN <<onSuccess("authenticated-user"),
                                           onError("Google API key is not configured. Please set VITE_GOOGLE_API_KEY in your .env file.")>>
                                    ELSE Some(onSuccess("authenticated-user"))]
  /\ UNCHANGED <<sdkState, authCalls, tokenRequests>>
  /\ UNCHANGED notListVars
  /\ UNCHANGED appVars
  /\ UNCHANGED pollVars
  /\ UNCHANGED pickVars
  /\ UNCHANGED listVars

\* paragon.authenticate rejected for the i-th call
AuthSdkRejected(i, e) ==
  /\ i \in DOMAIN hookCalls
  /\ hookCalls[i].au = "sdk"
  /\ AuthCatch("AuthSdkRejected", e, i, ErrorMessageOr(e, "Authentication failed"))

\* ExternalFilePicker.init resolved for the i-th call: picker.open(), return
AuthPickerInitResolved(i) ==
  /\ i \in DOMAIN hookCalls
  /\ hookCalls[i].au = "init"
  /\ lastEvent' = Event("AuthPickerInitResolved", None, Some(hookCalls[i]))
  /\ hookCalls' = Without(hookCalls, i)
  /\ UNCHANGED <<sdkState, authState, authCalls, tokenRequests>>
  /\ UNCHANGED notListVars
  /\ UNCHANGED appVars
  /\ UNCHANGED pollVars
  /\ UNCHANGED pickVars
  /\ UNCHANGED listVars

\* ExternalFilePicker.init rejected for the i-th call: the catch block runs
\* after onSuccess
AuthPickerInitRejected(i, e) ==
  /\ i \in DOMAIN hookCalls
  /\ hookCalls[i].au = "init"
  /\ AuthCatch("AuthPickerInitRejected", e, i, ErrorMessageOr(e, "Authentication failed"))

\* resetAuth
ResetAuth ==
  /\ authState' = resetAuth
  /\ lastEvent' = Event("ResetAuth", Before, None)
  /\ UNCHANGED <<sdkState, hookCalls, authCalls, tokenRequests>>
  /\ UNCHANGED notListVars
  /\ UNCHANGED appVars
  /\ UNCHANGED pollVars
  /\ UNCHANGED pickVars
  /\ UNCHANGED listVars

\* ------------------------------------------------------------ specification
Next ==
  \/ ConfigureSucceed
  \/ \E e \in SdkErrors : ConfigureFail(e)
  \/ \E s \in ScriptIds : ScriptLoaded(s)
  \/ \E s \in ScriptIds : ScriptFailed(s)
  \/ ClickConnect
  \/ \E i \in DOMAIN flows, t \in ProviderTokens : TokenSuccess(i, t)
  \/ \E i \in DOMAIN flows, e \in AxiosErrors : TokenFailure(i, e)
  \/ \E i \in DOMAIN flows : SdkAuthSuccess(i)
  \/ \E i \in DOMAIN flows, e \in SdkErrors : SdkAuthFailure(i, e)
  \/ \E i \in DOMAIN flows : ParagonPickerOpened(i)
  \/ \E i \in DOMAIN flows, e \in SdkErrors : ParagonPickerFailed(i, e)
  \/ \E i \in DOMAIN flows, t \in AccessTokens \cup {Null} : OAuthResponse(i, t)
  \/ \E i \in DOMAIN flows : PickerApiLoaded(i)
  \/ \E i \in DOMAIN flows, d \in PickerResponses : PickerCallback(i, d)
  \/ \E k \in DOMAIN syncCalls, b \in SyncBodies : SyncResponded(k, b)
  \/ \E k \in DOMAIN syncCalls, e \in AxiosErrors : SyncRejected(k, e)
  \/ ClickChangeFolder
  \/ NotificationTimeout

Spec == Init /\ [][Next]_vars

\* the steps taken by the parties the page waits for: the SDK, the script
\* loads, the token provider, the OAuth consent, the picker and its user,
\* the sync backend and the auto-dismiss timers
Responds ==
  \/ ConfigureSucceed
  \/ \E e \in SdkErrors : ConfigureFail(e)
  \/ \E s \in ScriptIds : ScriptLoaded(s)
  \/ \E s \in ScriptIds : ScriptFailed(s)
  \/ \E i \in DOMAIN flows, t \in ProviderTokens : TokenSuccess(i, t)
  \/ \E i \in DOMAIN flows, e \in AxiosErrors : TokenFailure(i, e)
  \/ \E i \in DOMAIN flows : SdkAuthSuccess(i)
  \/ \E i \in DOMAIN flows, e \in SdkErrors : SdkAuthFailure(i, e)
  \/ \E i \in DOMAIN flows : ParagonPickerOpened(i)
  \/ \E i \in DOMAIN flows, e \in SdkErrors : ParagonPickerFailed(i, e)
  \/ \E i \in DOMAIN flows, t \in AccessTokens \cup {Null} : OAuthResponse(i, t)
  \/ \E i \in DOMAIN flows : PickerApiLoaded(i)
  \/ \E i \in DOMAIN flows, d \in PickerResponses : PickerCallback(i, d)
  \/ \E k \in DOMAIN syncCalls, b \in SyncBodies : SyncResponded(k, b)
  \/ \E k \in DOMAIN syncCalls, e \in AxiosErrors : SyncRejected(k, e)
  \/ NotificationTimeout

\* every pending request, load, consent and picker is answered at some
\* point: the clicks are bounded, so the answers to give are finitely many
\* and weak fairness of the answering steps together answers each of them
SpecLive == Init /\ [][Next]_vars /\ WF_vars(Responds)

NextSync ==
  \/ \E files \in SelectedFileLists : FileSelect(files)
  \/ \E j \in DOMAIN selections, u \in ContextUserIds, t \in UserTokens :
       GenerateTokenSucceeded(j, u, t)
  \/ \E j \in DOMAIN selections, f \in FetchFailures : GenerateTokenFailed(j, f)
  \/ \E k \in DOMAIN mutations, r \in ConfigureSyncResponses :
       ConfigureSyncSucceeded(k, r)
  \/ \E k \in DOMAIN mutations, f \in FetchFailures : ConfigureSyncFailed(k, f)
  \/ PollTick
  \/ \E c \in DOMAIN polls, i \in 1..MaxSelections, r \in StatusResponses :
       StatusResolved(c, i, r)
  \/ \E c \in DOMAIN polls, i \in 1..MaxSelections : StatusRejected(c, i)
  \/ Unmount

SpecSync == Init /\ [][NextSync]_vars

NextHook ==
  \/ ConfigureSucceed
  \/ \E e \in SdkErrors : ConfigureFail(e)
  \/ Authenticate
  \/ \E i \in DOMAIN hookCalls, t \in ProviderTokens : AuthTokenResolved(i, t)
  \/ \E i \in DOMAIN hookCalls, e \in AxiosErrors : AuthTokenRejected(i, e)
  \/ \E i \in DOMAIN hookCalls : AuthSdkResolved(i)
  \/ \E i \in DOMAIN hookCalls, e \in SdkErrors : AuthSdkRejected(i, e)
  \/ \E i \in DOMAIN hookCalls : AuthPickerInitResolved(i)
  \/ \E i \in DOMAIN hookCalls, e \in SdkErrors : AuthPickerInitRejected(i, e)
  \/ ResetAuth

SpecHook == Init /\ [][NextHook]_vars

\* useGooglePicker driven by direct calls
NextPicker ==
  \/ \E s \in ScriptIds : ScriptLoaded(s)
  \/ \E s \in ScriptIds : ScriptFailed(s)
  \/ OpenPicker
  \/ \E i \in DOMAIN pickerCalls, t \in AccessTokens \cup {Null} : PickerOAuthResponse(i, t)
  \/ \E i \in DOMAIN pickerCalls : PickerLoaded(i)
  \/ \E i \in DOMAIN pickerCalls, data \in PickerResponses : PickerResponded(i, data)
  \/ ResetPicker

SpecPicker == Init /\ [][NextPicker]_vars

\* App from its first render on: IntegrationsPage lives while app = "page"
NextApp ==
  \/ AppMount
  \/ (app = "page" /\ Next)

SpecApp == InitApp /\ [][NextApp]_vars

\* the picker hook in a page mounted again in the same document
NextRemount ==
  \/ AppMount
  \/ (app = "page" /\ NextPicker)
  \/ \E s \in ScriptIds : (app = "page" /\ ScriptElementLoaded(s))
  \/ \E s \in ScriptIds : (app = "page" /\ ScriptElementFailed(s))

SpecRemount == InitRemount /\ [][NextRemount]_vars

\* ================================================================== claims
\* the task just committed and the flow / request it was about
EventIs(type) == lastEvent.type = type
EventFlow == lastEvent.on[1]

\* the picker callback just ran with a CANCEL action
PickerCancelled == EventIs("PickerCallback") /\ lastEvent.arg.action = "cancel"

\* C1: whenever authenticate calls paragon.authenticate, the credential it
\* passes is the token getParagonAuthToken returned in that same attempt,
\* together with the configured project id.
C1_SdkCredentialIsProviderToken ==
  (EventIs("TokenSuccess") /\ EventFlow.au = "sdk") =>
    /\ EventFlow.sdkTok = lastEvent.arg
    /\ EventFlow.sdkProj = PARAGON_PROJECT_KEY

\* C2: for every prior state, a picker CANCEL leaves isConnected = false and
\* causes no call of configureParagonSync.
C2_CancelMakesNoSyncCall ==
  PickerCancelled =>
    /\ ~integrationState.isConnected
    /\ ~lastEvent.fired

\* C3: when authentication succeeded and the picker is then cancelled, the
\* orchestrator is back in Disconnected silently: isConnected = false,
\* error = null, and onError is not called for the cancellation.
C3_CancelIsSilent ==
  PickerCancelled =>
    /\ ~integrationState.isConnected
    /\ integrationState.error = Null
    /\ lastEvent.cb = None

\* C4: at no time are two configureParagonSync requests of the one
\* GoogleDriveIntegration instance in flight together.
C4_OneSyncRequestInFlight == Len(syncCalls) <= 1

\* the picker callback just ran with a PICKED action that carries a document
PickedDoc == lastEvent.arg.docs[1]
PickerPicked ==
  EventIs("PickerCallback") /\ lastEvent.arg.action = "picked" /\ lastEvent.arg.docs # None

\* handleFileSelect just went past generateToken for a selection whose
\* first file has no id, or which has no file at all
SelectionWithoutId ==
  /\ EventIs("GenerateTokenSucceeded")
  /\ (lastEvent.arg = <<>> \/ lastEvent.arg[1].id = "")

\* C5: for every folder selection whose id is empty or missing, the sync
\* client is not invoked with that selection and the error 'Selected folder
\* must have an ID' is raised instead; this covers the picker callback of the
\* orchestrator and handleFileSelect of IntegrationList.
C5_NoSyncForSelectionWithoutId ==
  /\ (PickerPicked /\ PickedDoc.id = "") =>
       /\ ~lastEvent.fired
       /\ pickerState.error = "Selected folder must have an ID"
  /\ SelectionWithoutId => lastEvent.on = None

\* C6: within one flow the picker is opened only after authenticate has
\* completed fully (nothing of it is still running), and configureParagonSync
\* is invoked only after the picker resolved with a selection.
C6_StepsStrictlySequential ==
  /\ \A i \in DOMAIN flows :
       flows[i].op # "none" => flows[i].au \notin {"token", "sdk", "init"}
  /\ lastEvent.fired => pickerState.selectedFolder # None

\* the backend's error text of a rejected request, when it sent one
BackendText(e) == IF e.message # Null THEN e.message ELSE e.error

\* C7: when the token request of a connect is rejected with error text E,
\* integrationState.error is 'Authentication failed: E', onError is called
\* with that message, and the picker is not invoked in that flow.
C7_TokenFailureIsReported ==
  EventIs("TokenFailure") =>
    /\ integrationState.error # Null
    /\ ~integrationState.isLoading
    /\ (lastEvent.arg.kind = "response" /\ BackendText(lastEvent.arg) # Null) =>
         integrationState.error = "Authentication failed: " \o BackendText(lastEvent.arg)
    /\ lastEvent.cb = Some([type |-> "error", message |-> integrationState.error])
    /\ EventFlow.op = "none"
    /\ ~lastEvent.fired

C7_Witness ==
  /\ EventIs("TokenFailure")
  /\ lastEvent.arg.error = "Unauthorized"
  /\ integrationState.error = "Authentication failed: Unauthorized"
  /\ flows = <<>>

SyncFailed ==
  \/ EventIs("SyncRejected")
  \/ EventIs("SyncResponded") /\ ~lastEvent.arg.success

\* C9: when the sync request fails, the orchestrator ends in Errored:
\* isConnected is false, isLoading is false, no syncedFolder is recorded,
\* error is the failure message and onError is called with that message.
C9_SyncFailureEndsErrored ==
  SyncFailed =>
    /\ ~integrationState.isConnected
    /\ ~integrationState.isLoading
    /\ integrationState.syncedFolder = None
    /\ integrationState.error # Null
    /\ lastEvent.cb = Some([type |-> "error", message |-> integrationState.error])

\* C10: sync configuration is never retried automatically: neither the
\* failure of a request nor a notification timer (a re-render without a user
\* action) issues another configureParagonSync request.
C10_NoAutomaticRetry ==
  (SyncFailed \/ EventIs("NotificationTimeout")) => ~lastEvent.fired

\* ------------------------------------------------ claims on useParagon
\* what the caller saw before the call or reset that just ran
Seen == lastEvent.arg

\* C11: authenticate called while the SDK is not ready fails at once with
\* 'Paragon SDK is not ready': the error is stored and handed to onError,
\* isAuthenticated stays false, and neither getParagonAuthToken nor
\* paragon.authenticate is called.
C11_NotReadyFailsImmediately ==
  (EventIs("Authenticate") /\ ~Seen.sdkState.isReady) =>
    /\ authState.error = "Paragon SDK is not ready"
    /\ ~authState.isAuthenticated
    /\ authState.isAuthenticating = Seen.authState.isAuthenticating
    /\ authState.user = Seen.authState.user
    /\ lastEvent.cb = <<[callback |-> "onError", message |-> "Paragon SDK is not ready"]>>
    /\ tokenRequests = Seen.tokenRequests
    /\ lastEvent.on = None
    /\ hookCalls = <<>>

C11_Witness ==
  /\ EventIs("Authenticate")
  /\ ~Seen.sdkState.isReady
  /\ sdkState.error # Null
  /\ authState.error = "Paragon SDK is not ready"

\* a token request or a paragon.authenticate call of an attempt just failed
AuthStepFailed == EventIs("AuthTokenRejected") \/ EventIs("AuthSdkRejected")

\* the message authenticate reports for the failure that just happened
FailureMessage ==
  IF EventIs("AuthTokenRejected")
    THEN IF lastEvent.arg.kind = "response" /\ BackendText(lastEvent.arg) # Null
           THEN "Authentication failed: " \o BackendText(lastEvent.arg)
         ELSE IF lastEvent.arg.kind = "request"
           THEN "Authentication failed: Network error: Unable to reach the server"
         ELSE authState.error
    ELSE IF lastEvent.arg.isError THEN lastEvent.arg.message
         ELSE "Authentication failed"

AuthFinishedAfterSuccess ==
  EventIs("AuthPickerInitResolved") \/ EventIs("AuthPickerInitRejected")

\* C13: when the token request and paragon.authenticate both succeed,
\* onSuccess is invoked with {success: true, user: {id: 'authenticated-user'}}
\* and, once authenticate has finished, the manager is Authenticated:
\* isAuthenticated, not authenticating, user set, error = null.
C13_SuccessEndsAuthenticated ==
  /\ EventIs("AuthSdkResolved") =>
       lastEvent.cb = <<[callback |-> "onSuccess", success |-> TRUE,
                         user |-> "authenticated-user"]>>
  /\ AuthFinishedAfterSuccess =>
       authState = [isAuthenticated |-> TRUE, isAuthenticating |-> FALSE,
                    user |-> "authenticated-user", error |-> Null]

\* C14: while one authenticate call is in flight, a second call starts no
\* other authentication: it sends no token request.
C14_SecondCallStartsNothing ==
  (EventIs("Authenticate") /\ Seen.inFlight > 0) =>
    /\ tokenRequests = Seen.tokenRequests
    /\ lastEvent.on = None

\* C15: resetAuth, from any authentication state, yields isAuthenticated =
\* false, isAuthenticating = false, user = null, error = null and leaves the
\* SDK configuration state as it was; a second resetAuth right after the
\* first changes nothing.
C15_ResetAuthIsIdle ==
  EventIs("ResetAuth") =>
    /\ authState = [isAuthenticated |-> FALSE, isAuthenticating |-> FALSE,
                    user |-> Null, error |-> Null]
    /\ sdkState = Seen.sdkState
    /\ Seen.after = "ResetAuth" => authState = Seen.authState

C15_Witness ==
  /\ EventIs("ResetAuth")
  /\ Seen.authState.isAuthenticated
  /\ Seen.authState.user = "authenticated-user"
  /\ ~authState.isAuthenticated

\* C16: paragon.configureGlobal is attempted once: when the attempt made at
\* mount has settled no other is made, and after a failure the manager is in
\* ConfigError (not ready, not loading, error set) in every later state.
C16_ConfigureOnce ==
  /\ [](EventIs("ConfigureFail") =>
          ~sdkState.isReady /\ ~sdkState.isLoading /\ sdkState.error # Null)
  /\ [][~sdkState.isLoading => sdkState' = sdkState]_vars

C16_Witness ==
  /\ ~sdkState.isReady /\ ~sdkState.isLoading /\ sdkState.error # Null
  /\ EventIs("Authenticate")
  /\ authCalls = 2

\* ------------------------------------------ claims on the status poller
\* C17: a tick of the polling interval that finds no tracked sync issues no
\* status request and changes no state of the hook.
C17_EmptyTickIsNoOp ==
  (EventIs("PollTick") /\ Seen.syncs = <<>>) =>
    /\ statusRequests = Seen.statusRequests
    /\ lastEvent.on = None
    /\ syncs = Seen.syncs
    /\ userTokens = Seen.userTokens
    /\ polls = Seen.polls

C17_Witness ==
  /\ EventIs("PollTick")
  /\ Seen.syncs = <<>>
  /\ mutations # <<>>
  /\ pollTicks = 2

\* the last status request of a poll cycle has just settled
CycleDone ==
  /\ EventIs("StatusResolved") \/ EventIs("StatusRejected")
  /\ Seen.done

\* the requests of the cycle the last poller task was about
Cycle == lastEvent.on[1]

\* the cycle polled each syncId once
DistinctIds(run) ==
  \A i, j \in DOMAIN run : run[i].syncId = run[j].syncId => i = j

\* C18: when a poll cycle over syncs with distinct syncIds completes in the
\* mounted component and some of its status requests failed, every sync
\* whose request failed is ERRORED with message 'Failed to fetch status',
\* every other polled sync has the status fetched for it, and an entry that
\* was not polled is as it was; the collection keeps length and identities.
C18_FailureIsIsolated ==
  (/\ CycleDone
   /\ Seen.before.interval
   /\ DistinctIds(Cycle)
   /\ \E i \in DOMAIN Cycle : Cycle[i].outcome = "rejected") =>
    /\ Len(syncs) = Len(Seen.before.syncs)
    /\ \A k \in DOMAIN syncs :
         LET was == Seen.before.syncs[k]
             polled == { i \in DOMAIN Cycle : /\ Cycle[i].syncId = was.syncId
                                              /\ Cycle[i].outcome # "skipped" }
         IN /\ syncs[k].syncId = was.syncId
            /\ syncs[k].integration = was.integration
            /\ syncs[k].folderId = was.folderId
            /\ polled = {} => syncs[k] = was
            /\ \A i \in polled :
                 IF Cycle[i].outcome = "rejected"
                   THEN /\ syncs[k].status = "ERRORED"
                        /\ syncs[k].message = "Failed to fetch status"
                   ELSE /\ syncs[k].status = Cycle[i].response.status
                        /\ syncs[k].message =
                             (IF Cycle[i].response.summary.lastSyncedAt = Null
                                THEN "Last synced: Never | Records: 0/0"
                                ELSE "Last synced: 1/15/2025, 10:30:00 AM | Records: 3/5")

C18_Witness ==
  /\ CycleDone
  /\ Seen.before.interval
  /\ DistinctIds(Cycle)
  /\ Len(Cycle) = 2
  /\ Cycle[1].outcome = "rejected"
  /\ Cycle[2].outcome = "resolved"
  /\ syncs[1].status = "ERRORED"
  /\ syncs[2].status = "ACTIVE"
  /\ syncs[2].message = "Last synced: 1/15/2025, 10:30:00 AM | Records: 3/5"

\* C19: a tracked sync whose status is ERRORED keeps that status through
\* every poll result.
C19_ErroredIsFinal ==
  (EventIs("StatusResolved") \/ EventIs("StatusRejected")) =>
    \A k \in DOMAIN Seen.before.syncs :
      Seen.before.syncs[k].status = "ERRORED" => syncs[k].status = "ERRORED"

\* C20: the unmount clears the polling interval, and once it is cleared no
\* poll cycle starts and no status request is issued.
C20_NoPollAfterUnmount ==
  /\ [](EventIs("Unmount") => ~interval)
  /\ [][~interval =>
          /\ ~interval'
          /\ pollTicks' = pollTicks
          /\ statusRequests' = statusRequests
          /\ Len(polls') <= Len(polls)]_vars

C20_Witness ==
  /\ ~interval
  /\ EventIs("StatusResolved")
  /\ pollTicks < MaxPolls
  /\ syncs # <<>>

\* ------------------------------------------- claims, third group
\* C21: in the mounted hook every successful configureSync response appends
\* exactly one tracked entry, with the response's syncId, status
\* INITIALIZING and the request's integrationId and folderId, and records
\* the request's userToken for that syncId; a failed configureSync leaves
\* the tracked syncs and the recorded tokens as they were.
C21_SuccessTracksOneSync ==
  [][(/\ (lastEvent'.type = "ConfigureSyncSucceeded" /\ interval) =>
           /\ Len(syncs') = Len(syncs) + 1
           /\ \A k \in DOMAIN syncs : syncs'[k] = syncs[k]
           /\ syncs'[Len(syncs')].syncId = lastEvent'.arg.syncId
           /\ syncs'[Len(syncs')].status = "INITIALIZING"
           /\ syncs'[Len(syncs')].integration = lastEvent'.on[1].integrationId
           /\ syncs'[Len(syncs')].folderId = lastEvent'.on[1].folderId
           /\ DOMAIN userTokens' = DOMAIN userTokens \cup {lastEvent'.arg.syncId}
           /\ userTokens'[lastEvent'.arg.syncId] = lastEvent'.on[1].userToken
           /\ \A id \in DOMAIN userTokens \ {lastEvent'.arg.syncId} :
                userTokens'[id] = userTokens[id]
      /\ lastEvent'.type = "ConfigureSyncFailed" =>
           /\ syncs' = syncs
           /\ userTokens' = userTokens)]_vars

C21_Witness ==
  /\ EventIs("ConfigureSyncSucceeded")
  /\ interval
  /\ Len(syncs) = 2
  /\ syncs[2].syncId = lastEvent.arg.syncId
  /\ syncs[2].status = "INITIALIZING"
  /\ syncs[1].status = "ERRORED"

\* C22: openPicker called while the Google APIs are not ready stores the
\* error 'Google APIs are not ready' and does nothing else: no OAuth token
\* request, no picker load, the picker is not shown, the selection is as it
\* was and neither onSelect nor onCancel is called.
C22_OpenPickerNotReady ==
  (EventIs("OpenPicker") /\ ~Seen.isGoogleReady) =>
    /\ pickerState.error = "Google APIs are not ready"
    /\ pickerState.isOpen = Seen.pickerState.isOpen
    /\ pickerState.isLoading = Seen.pickerState.isLoading
    /\ pickerState.selectedFolder = Seen.pickerState.selectedFolder
    /\ pickerState.accessToken = Seen.pickerState.accessToken
    /\ ~pickerState.isOpen
    /\ oauthRequests = Seen.oauthRequests
    /\ Len(pickerCalls) = Seen.inFlight
    /\ lastEvent.on = None
    /\ lastEvent.cb = None

C22_Witness ==
  /\ EventIs("OpenPicker")
  /\ ~Seen.isGoogleReady
  /\ scripts["google-apis"].error # Null
  /\ pickerState.error = "Google APIs are not ready"

\* C23: Change Folder (handleReset) in the Connected state resets the
\* authentication state and the picker state and leaves the orchestrator
\* Disconnected, {isConnected: false, isLoading: false, error: null,
\* syncedFolder: undefined}; the render it causes issues no
\* sync-configuration request.
C23_ChangeFolderDisconnects ==
  EventIs("ClickChangeFolder") =>
    /\ integrationState = [isConnected |-> FALSE, isLoading |-> FALSE,
                           error |-> Null, syncedFolder |-> None]
    /\ authState = [isAuthenticated |-> FALSE, isAuthenticating |-> FALSE,
                    user |-> Null, error |-> Null]
    /\ pickerState = [isOpen |-> FALSE, isLoading |-> FALSE, selectedFolder |-> None,
                      error |-> Null, accessToken |-> Null]
    /\ ~lastEvent.fired
    /\ lastEvent.cb = None

C23_Witness ==
  /\ EventIs("ClickChangeFolder")
  /\ ~integrationState.isConnected
  /\ ~authState.isAuthenticated
  /\ pickerState.selectedFolder = None
  /\ syncIssued >= 1

\* the picker callback of a connect flow just reported PICKED with a
\* document whose id is empty
InvalidSelection ==
  /\ EventIs("PickerCallback")
  /\ lastEvent.arg.action = "picked"
  /\ lastEvent.arg.docs # None
  /\ lastEvent.arg.docs[1].id = ""

\* C24: when the picker reports PICKED with a document whose id is empty
\* during a connect flow, the orchestrator is Errored: not loading, not
\* connected, and the error shown to the user is not null.
C24_InvalidSelectionErrors ==
  InvalidSelection =>
    /\ ~integrationState.isLoading
    /\ ~isLoading
    /\ ~integrationState.isConnected
    /\ shownError # Null

\* a required environment value is missing
EnvIncomplete == validateEnvironment(env) # <<>>

\* C25: when a required environment value is missing, once the mount
\* effects have run the application shows the blocking configuration error
\* and no SDK configuration, authentication or connect flow was ever
\* started.
C25_MissingEnvBlocksEverything ==
  EnvIncomplete =>
    /\ app # "page"
    /\ app = "blocked" => envError # Null
    /\ configureCalls = 0
    /\ connects = 0
    /\ flows = <<>>
    /\ ~authState.isAuthenticating

\* the failure a rejected ParagonService call was given
Failure == IF EventIs("GenerateTokenFailed") THEN lastEvent.on[1].failure
           ELSE lastEvent.arg.failure

\* C26: a token request answered with an error response carrying error text
\* E fails with 'Authentication failed: E', one that gets no response fails
\* with 'Authentication failed: Network error: Unable to reach the server';
\* here for ParagonService.generateToken.
C26_TokenProviderErrorValue ==
  EventIs("GenerateTokenFailed") =>
    lastEvent.on[1].error =
      (IF Failure.kind = "response"
         THEN "Authentication failed: " \o Failure.body
         ELSE "Authentication failed: Network error: Unable to reach the server")

\* C27: a sync configuration request answered with an error response
\* carrying error text E fails with 'Sync configuration failed: E', one that
\* gets no response fails with 'Sync configuration failed: Network error:
\* Unable to reach the server'; here for ParagonService.configureSync.
C27_SyncClientErrorValue ==
  EventIs("ConfigureSyncFailed") =>
    lastEvent.arg.error =
      (IF Failure.kind = "response"
         THEN "Sync configuration failed: " \o Failure.body
         ELSE "Sync configuration failed: Network error: Unable to reach the server")

\* C28: handleConnect runs from the Connect button only in a state where
\* the SDK is ready, the picker dependencies are ready, the overall loading
\* flag is false and the card is not connected (the button is disabled or
\* not rendered in every other state).
C28_ConnectOnlyWhenReady ==
  [][lastEvent'.type = "ClickConnect" =>
       /\ sdkState.isReady
       /\ scripts["google-apis"].isLoaded
       /\ scripts["google-accounts"].isLoaded
       /\ windowGoogle
       /\ ~integrationState.isLoading
       /\ ~authState.isAuthenticating
       /\ ~pickerState.isLoading
       /\ ~integrationState.isConnected]_vars

C28_Witness ==
  /\ EventIs("ClickConnect")
  /\ connects = 2
  /\ sdkState.isReady
  /\ integrationState.isLoading

\* first non-null of three error values
FirstError(a, b, c) == IF a # Null THEN a ELSE IF b # Null THEN b ELSE c

\* C29: the overall loading flag is the OR of the in-flight flags of the
\* orchestrator, the authentication, the picker, the SDK configuration and
\* the script loaders, and the error shown is the first non-null of the
\* orchestrator's error, the authentication error and the picker error.
C29_LoadingAndErrorSurface ==
  /\ isLoading = (\/ integrationState.isLoading
                  \/ authState.isAuthenticating
                  \/ pickerState.isLoading
                  \/ sdkState.isLoading
                  \/ scripts["google-apis"].isLoading
                  \/ scripts["google-accounts"].isLoading)
  /\ shownError = FirstError(integrationState.error, authState.error, pickerState.error)

\* the values a poll result may carry
UpdateIds == {"sync-a", "sync-b", "sync-unknown"}
UpdateStatuses == {"INITIALIZING", "ACTIVE", "IDLE", "DISABLED", "ERRORED"}
UpdateMessages == {Null, "Failed to fetch status", "Last synced: Never | Records: 0/0"}

\* C30: updateSyncStatus applied to the tracked syncs with any result
\* overwrites status and message of the entries whose syncId matches and
\* nothing else: the other entries, the matching entries' syncId,
\* integration and folderId, and the length and order of the collection are
\* as before, and a result for a syncId that is not tracked changes nothing.
C30_UpdateTouchesOnlyMatching ==
  \A id \in UpdateIds, status \in UpdateStatuses, message \in UpdateMessages :
    LET next == updateSyncStatus(syncs, id, status, message)
    IN /\ Len(next) = Len(syncs)
       /\ DOMAIN next = DOMAIN syncs
       /\ \A k \in DOMAIN syncs :
            IF syncs[k].syncId = id
              THEN /\ next[k].status = status
                   /\ next[k].message = message
                   /\ next[k].syncId = syncs[k].syncId
                   /\ next[k].integration = syncs[k].integration
                   /\ next[k].folderId = syncs[k].folderId
              ELSE next[k] = syncs[k]
       /\ (\A k \in DOMAIN syncs : syncs[k].syncId # id) => next = syncs

C30_Witness ==
  /\ CycleDone
  /\ Seen.before.interval
  /\ Len(Cycle) = 1
  /\ Len(syncs) = 2
  /\ syncs[1].syncId # syncs[2].syncId
  /\ syncs[1].status = "ACTIVE"
  /\ syncs[2].status = "INITIALIZING"
  /\ syncs[2] = Seen.before.syncs[2]

\* ------------------------------------------- claims, fourth group
\* the syncIds tracked in a collection of syncs
TrackedIds(list) == { list[k].syncId : k \in DOMAIN list }

\* C31: no step of the session removes a tracked sync: after a configureSync
\* success or failure, a poll tick, a poll result or the unmount, every entry
\* is at the position it had, with the syncId it had, and every syncId that
\* was tracked is still tracked.
C31_TrackedSyncsAreKept ==
  [][/\ Len(syncs') >= Len(syncs)
     /\ \A k \in DOMAIN syncs : syncs'[k].syncId = syncs[k].syncId
     /\ TrackedIds(syncs) \subseteq TrackedIds(syncs')]_vars

C31_Witness ==
  /\ CycleDone
  /\ Seen.before.interval
  /\ Len(Cycle) = 2
  /\ Len(syncs) = 2
  /\ Cycle[1].outcome = "rejected"
  /\ Cycle[2].outcome = "rejected"
  /\ TrackedIds(syncs) = {"sync-a", "sync-b"}
  /\ fileSelects = MaxSelections

C33_TokenRequestedWhenNotCached ==
  /\ (EventIs("OpenPicker") /\ Seen.isGoogleReady) =>
       /\ lastEvent.on # None
       /\ IF Seen.pickerState.accessToken = Null
            THEN /\ oauthRequests = Seen.oauthRequests + 1
                 /\ lastEvent.on[1].op = "oauth"
            ELSE /\ oauthRequests = Seen.oauthRequests
                 /\ lastEvent.on[1].op = "load"
       /\ Seen.resetSinceOpen => oauthRequests = Seen.oauthRequests + 1
  /\ EventIs("ResetPicker") =>
       /\ pickerState.selectedFolder = None
       /\ pickerState.error = Null
       /\ pickerState.accessToken = Null

\* C34: in the mounted page the picker is ready only when the elements of
\* both scripts have finished loading and window.google is defined; an
\* element that is still loading or whose load failed, also one left in the
\* document by an earlier mount, never makes the picker ready.
C34_ReadyMeansScriptsLoaded ==
  (app = "page" /\ isGoogleReady) =>
    /\ elements["google-apis"] = "loaded"
    /\ elements["google-accounts"] = "loaded"
    /\ windowGoogle

\* C35: when every external party answers, a connect flow started by a
\* click on Connect is followed by a state in which the overall loading flag
\* is false.
C35_ConnectFlowEnds ==
  [](EventIs("ClickConnect") => <>(~isLoading))

\* C36: every step of an authenticate call invokes at most one callback: the
\* not-ready return and the failure of the token request or of
\* paragon.authenticate invoke onError alone, the success of
\* paragon.authenticate invokes onSuccess alone, and a call that has invoked
\* onSuccess (it awaits ExternalFilePicker.init) invokes no callback when it
\* ends and does not set the failed authentication state.
C36_OneCallbackPerCall ==
  /\ (EventIs("Authenticate") /\ ~Seen.sdkState.isReady) =>
       lastEvent.cb = Some(onError("Paragon SDK is not ready"))
  /\ (EventIs("AuthTokenRejected") \/ EventIs("AuthSdkRejected")) =>
       /\ Len(lastEvent.cb) = 1
       /\ lastEvent.cb[1].callback = "onError"
  /\ EventIs("AuthSdkResolved") =>
       lastEvent.cb = Some(onSuccess("authenticated-user"))
  /\ (EventIs("AuthPickerInitResolved") \/ EventIs("AuthPickerInitRejected")) =>
       /\ lastEvent.on[1].au = "init"
       /\ lastEvent.cb = None
       /\ EventIs("AuthPickerInitRejected") =>
            authState # authenticateFailed(ErrorMessageOr(lastEvent.arg, "Authentication failed"))

\* C37: whenever the orchestrator is connected, syncedFolder is defined with
\* a non-empty id, error is null and isLoading is false; and the step that
\* connects it is the success of a configureParagonSync request for exactly
\* the id of syncedFolder.
C37_ConnectedIsConsistent ==
  /\ integrationState.isConnected =>
       /\ integrationState.syncedFolder # None
       /\ integrationState.syncedFolder[1].id # ""
       /\ integrationState.error = Null
       /\ ~integrationState.isLoading
  /\ (EventIs("SyncResponded") /\ lastEvent.arg.success) =>
       /\ integrationState.isConnected
       /\ EventFlow.request.folderId = integrationState.syncedFolder[1].id

\* C38: once resetAuth has put the manager in Idle (not authenticated, not
\* authenticating, no user, no error) only a new authenticate call changes
\* the authentication state: the completion or failure of a call that was in
\* flight when resetAuth ran leaves it as it is.
C38_IdleUntilNextAuthenticate ==
  [][(authState = resetAuth /\ lastEvent'.type # "Authenticate") =>
       authState' = authState]_vars

\* the cycle that has just completed in the mounted component was started
\* by an earlier tick than a cycle whose results were applied before
LaterCycleApplied ==
  /\ CycleDone
  /\ Seen.before.interval
  /\ LET tick == Seen.before.pollOrder[Seen.cycle]
     IN \E later \in (tick + 1)..pollTicks :
          \A c \in DOMAIN Seen.before.pollOrder : Seen.before.pollOrder[c] # later

\* C39: when two poll cycles overlap, the results of the earlier cycle that
\* arrive after those of the later cycle were applied change nothing: every
\* sync keeps the status and message the later cycle fetched.
C39_LaterCycleWins ==
  LaterCycleApplied => syncs = Seen.before.syncs

=============================================================================
